---- MODULE Spec2Model ----
(***************************************************************************)
(* Model of the edtech-scraper fetch-and-reduce pipeline.                  *)
(*                                                                         *)
(* Spec          the two scrape coordinators and their content extractors  *)
(*               (src/src/services/scraper.js, batches of CONCURRENCY      *)
(*               concurrent extractions; src/src/services/search.js, one   *)
(*               extraction at a time with navigation retries).            *)
(* SpecValidate  validateAndFormatSummary (src/unnamed/part_000) applied   *)
(*               to bounded raw digest texts and known-URL lists.          *)
(*                                                                         *)
(* SpecProject   extractPointsAndSources                                   *)
(*               (src/src/services/messageService.js) applied to bounded   *)
(*               digest texts.                                             *)
(*                                                                         *)
(* SpecMain      main (src/README.md) with fetchSearchResults and          *)
(*               fallbackSearch (search.js), the outcome of                *)
(*               scrapeMultipleUrls, summarizeAllContent (part_000 with    *)
(*               validateAndFormatSummary, or summarizer.js) and the       *)
(*               outcome of saveEdTechNewsSummary.                         *)
(*                                                                         *)
(* SpecRegistry  isUrlProcessedBefore and markUrlAsProcessed (search.js)   *)
(*               called one after the other on the cache file.             *)
(*                                                                         *)
(* SpecConcurrent  the same two functions called by two callers whose     *)
(*               calls overlap.                                            *)
(*                                                                         *)
(* SpecDigest    validateAndFormatSummary followed by                      *)
(*               extractPointsAndSources applied to its digest.            *)
(*                                                                         *)
(* SpecPrompt    summarizeAllContent (part_000, summarizer.js) up to the   *)
(*               prompt, applied to bounded lists of documents.            *)
(*                                                                         *)
(* SpecRun       main with scrapeMultipleUrls and scrapeContent run step   *)
(*               by step instead of the outcome alone.                     *)
(*                                                                         *)
(* FairSpec      Spec with every awaited operation settling eventually.    *)
(* FairRun       SpecRun with every awaited operation settling eventually. *)
(*                                                                         *)
(* Every await of the JavaScript code is one step of the model: the code   *)
(* between two awaits runs without interleaving (single-threaded event     *)
(* loop), so it is part of the action that the resolution of the first     *)
(* await triggers.                                                         *)
(***************************************************************************)
EXTENDS Integers, Sequences, FiniteSets, TLC

VARIABLES
    impl,            \* which file's scrapeMultipleUrls runs: "scraper" or "search"
    nResults,        \* searchResults.length
    cpc,             \* position of scrapeMultipleUrls
    i,               \* scraper.js: loop index i; search.js: index of the current result
    scrapedResults,  \* the array scrapedResults
    pc,              \* pc[s]: position of scrapeContent(searchResults[s].url)
    browser,         \* browser[s]: "null", "open" or "closed"
    ret,             \* ret[s]: the value scrapeContent is about to return / has returned
    attempt,         \* search.js: the navigation attempt counter
    closeErr,        \* closeErr[s]: browser.close() was awaited and rejected
    vpc,             \* position of validateAndFormatSummary
    summaryText,     \* its argument summaryText, as the sequence of its lines
    validUrls,       \* its argument validUrls
    bulletPoints,    \* the array bulletPoints
    usedUrls,        \* the set usedUrls
    ppc,             \* position of extractPointsAndSources
    summary,         \* its argument summary, as the sequence of its lines
    result,          \* what it returned: << >> for null, else <<the record>>
    mpc,             \* position of main
    gimpl,           \* which file's summarizeAllContent runs: "part_000" or "summarizer"
    stages,          \* the stages main has called, in the order of the calls
    requests,        \* the number of search requests (axios.get) made
    searchResults,   \* main: const searchResults
    articles,        \* main: const scrapedResults, the argument of summarizeAllContent
    sourceUrls,      \* summarizeAllContent: const sourceUrls
    providerCalls,   \* the number of model.generateContent calls made
    providerFailed,  \* the number of them that threw
    summarizedArticles, \* main: const summarizedArticles
    gret,            \* how summarizeAllContent ended: "pending" or "returned"
    exitCode,        \* the exit code of the process, -1 while it runs
    file,            \* the cache file: whether it exists, and the list in it
    active,          \* the callers that call the registry functions
    calls,           \* the number of registry calls made
    rpc,             \* rpc[p]: position of the registry call of caller p
    rurl,            \* rurl[p]: its argument url
    processedUrls,   \* processedUrls[p]: its local processedUrls
    rret,            \* rret[p]: what isUrlProcessedBefore returned last
    history,         \* the registry calls that are over, in their order
    spc,             \* position of summarizeAllContent called on documents
    documents,       \* its argument articles
    combinedContent, \* the string combinedContent, as the sequence of its sections
    knownUrls        \* its array sourceUrls, which the validator is given

scrapeVars == <<impl, nResults, cpc, i, scrapedResults, pc, browser, ret, attempt, closeErr>>
validateVars == <<vpc, summaryText, validUrls, bulletPoints, usedUrls>>
projectVars == <<ppc, summary, result>>
mainVars == <<mpc, gimpl, stages, requests, searchResults, articles, sourceUrls,
              providerCalls, providerFailed, summarizedArticles, gret, exitCode>>
registryVars == <<file, active, calls, rpc, rurl, processedUrls, rret, history>>
promptVars == <<spc, documents, combinedContent, knownUrls>>
vars == <<scrapeVars, validateVars, projectVars, mainVars, registryVars, promptVars>>

\* what the functions of one file leave alone
notScrapeVars == <<validateVars, projectVars, mainVars, registryVars, promptVars>>
notValidateVars == <<scrapeVars, projectVars, mainVars, registryVars, promptVars>>
notProjectVars == <<scrapeVars, validateVars, mainVars, registryVars, promptVars>>
\* main runs validateAndFormatSummary
notMainVars == <<scrapeVars, projectVars, registryVars, promptVars>>
notRegistryVars == <<scrapeVars, validateVars, projectVars, mainVars, promptVars>>
notPromptVars == <<scrapeVars, validateVars, projectVars, mainVars, registryVars>>

(***************************************************************************)
(* Bounds of the model.                                                    *)
(***************************************************************************)
\* the longest searchResults list that is explored
MaxSources == 4
\* the number of distinct URLs a validUrls list is built from
NumUrls == 10
\* the largest number of bullets in a raw digest text
MaxPairs == 9
\* the largest number of unused known URLs the backfill chooses among
MaxSpare == 5
\* the largest number of random choices one backfill makes
MaxBackfill == 3
\* the largest number of bullets in a digest text given to the projector
MaxBullets == 10
\* the largest number of bullets in the text the provider replies with
MaxReply == 2
\* the largest number of registry calls in a run
MaxCalls == 3
\* the largest number of documents given to summarizeAllContent
MaxDocs == 3

(***************************************************************************)
(* Program constants.                                                      *)
(***************************************************************************)
\* scraper.js: const CONCURRENCY = 3
CONCURRENCY == 3
\* the largest number of candidates a search request returns: one more
\* than a batch, so that the scrape stage of a run has a second batch
MaxCandidates == CONCURRENCY + 1
\* search.js: for (let attempt = 0; attempt < 3; attempt++)
MaxAttempts == 3
\* part_000: if (bulletPoints.length >= 16) break; // 8 points * 2 lines each
DigestLines == 16
\* messageService.js: while (points.length < 8), while (links.length < 8)
TemplateSlots == 8
\* messageService.js: points[0].substring(0, 1000)
PointCap == 1000
\* search.js: if (processedUrls.length > 1000)
Capacity == 1000
\* part_000, summarizer.js: article.content.substring(0, 4000)
ContentCap == 4000
\* the three characters of "..."
EllipsisLength == 3

Sources == 1..MaxSources

\* the content "" and the non-empty text of the page of source s
EmptyContent == << >>
PageText(s) == <<s>>

Min(a, b) == IF a <= b THEN a ELSE b

(***************************************************************************)
(* src/src/services/scraper.js                                             *)
(***************************************************************************)

\* Batch with a slice that is one result too wide
Batch_TooWide(k) == (k + 1)..Min(k + CONCURRENCY + 1, nResults)

\* searchResults.slice(k, k + CONCURRENCY), as 1-based positions
Batch(k) == (k + 1)..Min(k + CONCURRENCY, nResults)

\* batch.map((result) => scrapeContent(result.url)...): every call runs up
\* to its first await, puppeteer.launch
StartBatch(k) ==
    pc' = [s \in Sources |-> IF s \in Batch(k) THEN "launch" ELSE pc[s]]

\* FilterContent that collects the batch from its last result to its first
RECURSIVE FilterContent_Reversed(_, _)
FilterContent_Reversed(from, to) ==
    IF from > to THEN << >>
    ELSE FilterContent_Reversed(from + 1, to)
           \o (IF ret[from] # EmptyContent
                 THEN <<[src |-> from, content |-> ret[from]]>>
                 ELSE << >>)

\* FilterContent that gives up at the first empty result of the batch
RECURSIVE FilterContent_StopAtFailure(_, _)
FilterContent_StopAtFailure(from, to) ==
    IF from > to \/ ret[from] = EmptyContent THEN << >>
    ELSE <<[src |-> from, content |-> ret[from]]>>
           \o FilterContent_StopAtFailure(from + 1, to)

\* batchResults.filter((r) => r.content), in batch order
RECURSIVE FilterContent(_, _)
FilterContent(from, to) ==
    IF from > to THEN << >>
    ELSE (IF ret[from] # EmptyContent
            THEN <<[src |-> from, content |-> ret[from]]>>
            ELSE << >>) \o FilterContent(from + 1, to)

\* scrapeMultipleUrls up to the first await Promise.all (or the return when
\* searchResults is empty)
scrapeMultipleUrls_start ==
    /\ impl = "scraper"
    /\ cpc = "start"
    /\ IF nResults > 0
         THEN /\ StartBatch(0)
              /\ cpc' = "await_all"
         ELSE /\ cpc' = "done"
              /\ UNCHANGED pc
    /\ UNCHANGED <<impl, nResults, i, scrapedResults, browser, ret, attempt, closeErr>>
    /\ UNCHANGED notScrapeVars

\* scrapeMultipleUrls_batchDone that goes on as soon as one promise of the
\* batch is fulfilled (Promise.race for Promise.all)
scrapeMultipleUrls_batchDone_Race ==
    /\ impl = "scraper"
    /\ cpc = "await_all"
    /\ \E s \in Batch(i) : pc[s] = "returned"
    /\ scrapedResults' = scrapedResults \o FilterContent(i + 1, Min(i + CONCURRENCY, nResults))
    /\ IF i + CONCURRENCY < nResults
         THEN /\ cpc' = "delay"
              /\ i' = i
         ELSE /\ cpc' = "done"
              /\ i' = i + CONCURRENCY
    /\ UNCHANGED <<impl, nResults, pc, browser, ret, attempt, closeErr>>
    /\ UNCHANGED notScrapeVars

\* await Promise.all(batchPromises) resolves: every promise of the batch is
\* fulfilled; push the non-empty results, then pause or return
scrapeMultipleUrls_batchDone ==
    /\ impl = "scraper"
    /\ cpc = "await_all"
    /\ \A s \in Batch(i) : pc[s] = "returned"
    /\ scrapedResults' = scrapedResults \o FilterContent(i + 1, Min(i + CONCURRENCY, nResults))
    /\ IF i + CONCURRENCY < nResults
         THEN /\ cpc' = "delay"
              /\ i' = i
         ELSE /\ cpc' = "done"
              /\ i' = i + CONCURRENCY
    /\ UNCHANGED <<impl, nResults, pc, browser, ret, attempt, closeErr>>
    /\ UNCHANGED notScrapeVars

\* the BATCH_DELAY timer fires: i += CONCURRENCY and the next batch starts
scrapeMultipleUrls_delayDone ==
    /\ impl = "scraper"
    /\ cpc = "delay"
    /\ i' = i + CONCURRENCY
    /\ StartBatch(i + CONCURRENCY)
    /\ cpc' = "await_all"
    /\ UNCHANGED <<impl, nResults, scrapedResults, browser, ret, attempt, closeErr>>
    /\ UNCHANGED notScrapeVars

\* CatchFinally without the finally block: the catch block returns at once
CatchFinally_NoClose(s) ==
    /\ ret' = [ret EXCEPT ![s] = EmptyContent]
    /\ pc' = [pc EXCEPT ![s] = "returned"]

\* the catch block returns "" and the finally block runs: with a browser it
\* awaits browser.close(), without one the call returns at once
CatchFinally(s) ==
    /\ ret' = [ret EXCEPT ![s] = EmptyContent]
    /\ pc' = [pc EXCEPT ![s] = IF browser[s] = "null" THEN "returned" ELSE "close"]

\* await puppeteer.launch(...) settles
scrapeContent_launch(s) ==
    /\ impl = "scraper"
    /\ pc[s] = "launch"
    /\ \/ /\ browser' = [browser EXCEPT ![s] = "open"]
          /\ pc' = [pc EXCEPT ![s] = "setup"]
          /\ UNCHANGED ret
       \/ /\ CatchFinally(s)
          /\ UNCHANGED browser
    /\ UNCHANGED <<impl, nResults, cpc, i, scrapedResults, attempt, closeErr>>
    /\ UNCHANGED notScrapeVars

\* browser.newPage(), setDefaultNavigationTimeout, setUserAgent and
\* setRequestInterception settle
scrapeContent_setup(s) ==
    /\ impl = "scraper"
    /\ pc[s] = "setup"
    /\ \/ /\ pc' = [pc EXCEPT ![s] = "goto"]
          /\ UNCHANGED ret
       \/ CatchFinally(s)
    /\ UNCHANGED <<impl, nResults, cpc, i, scrapedResults, browser, attempt, closeErr>>
    /\ UNCHANGED notScrapeVars

\* await page.goto(url, ...) settles: an OK response, a response that is
\* not OK (throw new Error(`HTTP ...`)) or a rejection
scrapeContent_goto(s) ==
    /\ impl = "scraper"
    /\ pc[s] = "goto"
    /\ \E outcome \in {"ok", "not_ok", "rejected"} :
         IF outcome = "ok"
           THEN /\ pc' = [pc EXCEPT ![s] = "extract"]
                /\ UNCHANGED ret
           ELSE CatchFinally(s)
    /\ UNCHANGED <<impl, nResults, cpc, i, scrapedResults, browser, attempt, closeErr>>
    /\ UNCHANGED notScrapeVars

\* await page.content() settles; the body text may be empty
scrapeContent_extract(s) ==
    /\ impl = "scraper"
    /\ pc[s] = "extract"
    /\ \/ \E text \in {EmptyContent, PageText(s)} :
            /\ ret' = [ret EXCEPT ![s] = text]
            /\ pc' = [pc EXCEPT ![s] = "close"]
       \/ CatchFinally(s)
    /\ UNCHANGED <<impl, nResults, cpc, i, scrapedResults, browser, attempt, closeErr>>
    /\ UNCHANGED notScrapeVars

\* finally: await browser.close() settles; a rejection is caught and logged,
\* and the browser process may or may not be gone
scrapeContent_close(s) ==
    /\ impl = "scraper"
    /\ pc[s] = "close"
    /\ \/ /\ browser' = [browser EXCEPT ![s] = "closed"]
          /\ UNCHANGED closeErr
       \/ /\ closeErr' = [closeErr EXCEPT ![s] = TRUE]
          /\ \E b \in {"open", "closed"} : browser' = [browser EXCEPT ![s] = b]
    /\ pc' = [pc EXCEPT ![s] = "returned"]
    /\ UNCHANGED <<impl, nResults, cpc, i, scrapedResults, ret, attempt>>
    /\ UNCHANGED notScrapeVars

(***************************************************************************)
(* src/src/services/search.js                                              *)
(***************************************************************************)

\* scrapeContent(result.url) runs up to its first await, puppeteer.launch
search_StartOne(s) ==
    pc' = [pc EXCEPT ![s] = "launch"]

\* for (const result of searchResults): the first iteration up to
\* await scrapeContent(result.url), or the return when the list is empty
search_scrapeMultipleUrls_start ==
    /\ impl = "search"
    /\ cpc = "start"
    /\ IF nResults > 0
         THEN /\ search_StartOne(1)
              /\ cpc' = "await_one"
         ELSE /\ cpc' = "done"
              /\ UNCHANGED pc
    /\ UNCHANGED <<impl, nResults, i, scrapedResults, browser, ret, attempt, closeErr>>
    /\ UNCHANGED notScrapeVars

\* await scrapeContent(result.url) settles: a result with content is pushed,
\* an empty one is logged, a rejection is caught and logged; then the 1000 ms
\* pause is awaited
search_scrapeMultipleUrls_resultDone ==
    /\ impl = "search"
    /\ cpc = "await_one"
    /\ pc[i + 1] \in {"returned", "threw"}
    /\ scrapedResults' =
         IF pc[i + 1] = "returned" /\ ret[i + 1] # EmptyContent
           THEN Append(scrapedResults, [src |-> i + 1, content |-> ret[i + 1]])
           ELSE scrapedResults
    /\ cpc' = "delay"
    /\ UNCHANGED <<impl, nResults, i, pc, browser, ret, attempt, closeErr>>
    /\ UNCHANGED notScrapeVars

\* the pause ends: the next iteration starts, or the function returns
search_scrapeMultipleUrls_delayDone ==
    /\ impl = "search"
    /\ cpc = "delay"
    /\ i' = i + 1
    /\ IF i + 1 < nResults
         THEN /\ search_StartOne(i + 2)
              /\ cpc' = "await_one"
         ELSE /\ cpc' = "done"
              /\ UNCHANGED pc
    /\ UNCHANGED <<impl, nResults, scrapedResults, browser, ret, attempt, closeErr>>
    /\ UNCHANGED notScrapeVars

\* the catch block returns { content: "" } and the finally block runs
search_CatchFinally(s) ==
    /\ ret' = [ret EXCEPT ![s] = EmptyContent]
    /\ pc' = [pc EXCEPT ![s] = IF browser[s] = "null" THEN "returned" ELSE "close"]

\* await puppeteer.launch(...) settles
search_scrapeContent_launch(s) ==
    /\ impl = "search"
    /\ pc[s] = "launch"
    /\ \/ /\ browser' = [browser EXCEPT ![s] = "open"]
          /\ pc' = [pc EXCEPT ![s] = "setup"]
          /\ UNCHANGED ret
       \/ /\ search_CatchFinally(s)
          /\ UNCHANGED browser
    /\ UNCHANGED <<impl, nResults, cpc, i, scrapedResults, attempt, closeErr>>
    /\ UNCHANGED notScrapeVars

\* browser.newPage(), setDefaultNavigationTimeout, setRequestInterception and
\* setUserAgent settle; then the retry loop starts with attempt = 0
search_scrapeContent_setup(s) ==
    /\ impl = "search"
    /\ pc[s] = "setup"
    /\ \/ /\ pc' = [pc EXCEPT ![s] = "goto"]
          /\ UNCHANGED ret
       \/ search_CatchFinally(s)
    /\ UNCHANGED <<impl, nResults, cpc, i, scrapedResults, browser, attempt, closeErr>>
    /\ UNCHANGED notScrapeVars

\* await page.goto(url, ...) settles: any response breaks out of the loop
\* (its status is not looked at); a rejection is rethrown on the last
\* attempt and otherwise followed by a 2000 ms pause. attempt is local to
\* the loop: the model forgets it (0) when the loop is left
search_scrapeContent_goto(s) ==
    /\ impl = "search"
    /\ pc[s] = "goto"
    /\ \/ /\ pc' = [pc EXCEPT ![s] = "extract"]
          /\ attempt' = [attempt EXCEPT ![s] = 0]
          /\ UNCHANGED ret
       \/ IF attempt[s] = MaxAttempts - 1
            THEN /\ search_CatchFinally(s)
                 /\ attempt' = [attempt EXCEPT ![s] = 0]
            ELSE /\ pc' = [pc EXCEPT ![s] = "retry_wait"]
                 /\ UNCHANGED <<ret, attempt>>
    /\ UNCHANGED <<impl, nResults, cpc, i, scrapedResults, browser, closeErr>>
    /\ UNCHANGED notScrapeVars

\* the pause between two attempts ends: attempt++ and page.goto is called again
search_scrapeContent_retry(s) ==
    /\ impl = "search"
    /\ pc[s] = "retry_wait"
    /\ attempt' = [attempt EXCEPT ![s] = attempt[s] + 1]
    /\ pc' = [pc EXCEPT ![s] = "goto"]
    /\ UNCHANGED <<impl, nResults, cpc, i, scrapedResults, browser, ret, closeErr>>
    /\ UNCHANGED notScrapeVars

\* await page.content() settles; the body text may be empty
search_scrapeContent_extract(s) ==
    /\ impl = "search"
    /\ pc[s] = "extract"
    /\ \/ \E text \in {EmptyContent, PageText(s)} :
            /\ ret' = [ret EXCEPT ![s] = text]
            /\ pc' = [pc EXCEPT ![s] = "close"]
       \/ search_CatchFinally(s)
    /\ UNCHANGED <<impl, nResults, cpc, i, scrapedResults, browser, attempt, closeErr>>
    /\ UNCHANGED notScrapeVars

\* finally { if (browser) await browser.close(); }: a rejection of close()
\* is not caught here, it replaces the pending return value and leaves
\* scrapeContent as an exception
search_scrapeContent_close(s) ==
    /\ impl = "search"
    /\ pc[s] = "close"
    /\ \/ /\ browser' = [browser EXCEPT ![s] = "closed"]
          /\ pc' = [pc EXCEPT ![s] = "returned"]
          /\ UNCHANGED closeErr
       \/ /\ closeErr' = [closeErr EXCEPT ![s] = TRUE]
          /\ \E b \in {"open", "closed"} : browser' = [browser EXCEPT ![s] = b]
          /\ pc' = [pc EXCEPT ![s] = "threw"]
    /\ UNCHANGED <<impl, nResults, cpc, i, scrapedResults, ret, attempt>>
    /\ UNCHANGED notScrapeVars

(***************************************************************************)
(* src/unnamed/part_000: validateAndFormatSummary                          *)
(*                                                                         *)
(* A line of text is modelled by what the code asks of it:                 *)
(*   kind "bullet"   line.trim().startsWith('*'); text names its content   *)
(*   kind "source"   the trimmed line starts with 'Source:' and            *)
(*                   /Source:\s*(https?:\/\/[^\s]+)/i matches; url is the  *)
(*                   captured group                                        *)
(*   kind "nourl"    the trimmed line starts with 'Source:' and the        *)
(*                   pattern does not match                                *)
(*   kind "other"    any other line (blank, prose)                         *)
(* URLs are 1, 2, ...; the texts of the bullets of a raw text are 1, 2,    *)
(* ... and text 0 is the fixed string "Important EdTech development (see   *)
(* source for details)". The fields that a kind does not use are 0.        *)
(***************************************************************************)
BulletLine(text) == [kind |-> "bullet", text |-> text, url |-> 0]
OtherLine == [kind |-> "other", text |-> 0, url |-> 0]
NoUrlLine == [kind |-> "nourl", text |-> 0, url |-> 0]

\* the line `  Source: ${url}` (also: any line the pattern captures url from)
SourceLine(url) == [kind |-> "source", text |-> 0, url |-> url]

\* the line `* ${randomContent}`
PlaceholderLine == BulletLine(0)

\* line.startsWith('*')
StartsWithStar(line) == line.kind = "bullet"

\* lines[i + 1].trim().startsWith('Source:')
StartsWithSource(line) == line.kind \in {"source", "nourl"}

\* sourceLine.match(/Source:\s*(https?:\/\/[^\s]+)/i): urlMatch is not null
UrlMatches(line) == line.kind = "source"

\* validUrls.includes(url)
Includes(urls, url) == \E k \in 1..Len(urls) : urls[k] = url

\* Accepts without the usedUrls test
Accepts_NoUsedCheck(lines, urls, p, used) ==
    /\ StartsWithStar(lines[p])
    /\ p + 1 <= Len(lines)
    /\ StartsWithSource(lines[p + 1])
    /\ UrlMatches(lines[p + 1])
    /\ Includes(urls, lines[p + 1].url)

\* Accepts without the validUrls test
Accepts_NoKnownCheck(lines, urls, p, used) ==
    /\ StartsWithStar(lines[p])
    /\ p + 1 <= Len(lines)
    /\ StartsWithSource(lines[p + 1])
    /\ UrlMatches(lines[p + 1])
    /\ lines[p + 1].url \notin used

\* the body of the for loop for the line at 1-based position p: is the pair
\* (lines[p], lines[p + 1]) pushed?
Accepts(lines, urls, p, used) ==
    /\ StartsWithStar(lines[p])
    /\ p + 1 <= Len(lines)
    /\ StartsWithSource(lines[p + 1])
    /\ UrlMatches(lines[p + 1])
    /\ Includes(urls, lines[p + 1].url)
    /\ lines[p + 1].url \notin used

\* ScanFrom that looks for the source line on the two lines after the
\* bullet, as extractPointsAndSources does
RECURSIVE ScanFrom_Lookahead2(_, _, _, _, _)
ScanFrom_Lookahead2(lines, urls, p, bp, used) ==
    IF p > Len(lines)
      THEN [bulletPoints |-> bp, usedUrls |-> used]
      ELSE LET q == IF Accepts(lines, urls, p, used) THEN p + 1
                    ELSE IF /\ StartsWithStar(lines[p])
                            /\ p + 2 <= Len(lines)
                            /\ StartsWithSource(lines[p + 2])
                            /\ UrlMatches(lines[p + 2])
                            /\ Includes(urls, lines[p + 2].url)
                            /\ lines[p + 2].url \notin used
                           THEN p + 2
                           ELSE 0
               ok == q # 0
               bp2 == IF ok
                        THEN bp \o <<lines[p], SourceLine(lines[q].url)>>
                        ELSE bp
               used2 == IF ok THEN used \cup {lines[q].url} ELSE used
               p2 == IF ok THEN p + 1 ELSE p
           IN  IF Len(bp2) >= DigestLines
                 THEN [bulletPoints |-> bp2, usedUrls |-> used2]
                 ELSE ScanFrom_Lookahead2(lines, urls, p2 + 1, bp2, used2)

\* ScanFrom that puts an accepted pair in front (unshift for push)
RECURSIVE ScanFrom_Unshift(_, _, _, _, _)
ScanFrom_Unshift(lines, urls, p, bp, used) ==
    IF p > Len(lines)
      THEN [bulletPoints |-> bp, usedUrls |-> used]
      ELSE LET ok == Accepts(lines, urls, p, used)
               bp2 == IF ok
                        THEN <<lines[p], SourceLine(lines[p + 1].url)>> \o bp
                        ELSE bp
               used2 == IF ok THEN used \cup {lines[p + 1].url} ELSE used
               p2 == IF ok THEN p + 1 ELSE p
           IN  IF Len(bp2) >= DigestLines
                 THEN [bulletPoints |-> bp2, usedUrls |-> used2]
                 ELSE ScanFrom_Unshift(lines, urls, p2 + 1, bp2, used2)

\* ScanFrom that breaks one pair early (at 14 lines)
RECURSIVE ScanFrom_BreakEarly(_, _, _, _, _)
ScanFrom_BreakEarly(lines, urls, p, bp, used) ==
    IF p > Len(lines)
      THEN [bulletPoints |-> bp, usedUrls |-> used]
      ELSE LET ok == Accepts(lines, urls, p, used)
               bp2 == IF ok
                        THEN bp \o <<lines[p], SourceLine(lines[p + 1].url)>>
                        ELSE bp
               used2 == IF ok THEN used \cup {lines[p + 1].url} ELSE used
               p2 == IF ok THEN p + 1 ELSE p
           IN  IF Len(bp2) >= DigestLines - 2
                 THEN [bulletPoints |-> bp2, usedUrls |-> used2]
                 ELSE ScanFrom_BreakEarly(lines, urls, p2 + 1, bp2, used2)

\* ScanFrom without the break at 16 lines
RECURSIVE ScanFrom_NoBreak(_, _, _, _, _)
ScanFrom_NoBreak(lines, urls, p, bp, used) ==
    IF p > Len(lines)
      THEN [bulletPoints |-> bp, usedUrls |-> used]
      ELSE LET ok == Accepts(lines, urls, p, used)
               bp2 == IF ok
                        THEN bp \o <<lines[p], SourceLine(lines[p + 1].url)>>
                        ELSE bp
               used2 == IF ok THEN used \cup {lines[p + 1].url} ELSE used
               p2 == IF ok THEN p + 1 ELSE p
           IN  ScanFrom_NoBreak(lines, urls, p2 + 1, bp2, used2)

\* for (let i = 0; i < lines.length; i++) { ... }, from the 1-based position
\* p on, with the bulletPoints bp and the usedUrls used collected so far
RECURSIVE ScanFrom(_, _, _, _, _)
ScanFrom(lines, urls, p, bp, used) ==
    IF p > Len(lines)
      THEN [bulletPoints |-> bp, usedUrls |-> used]
      ELSE LET ok == Accepts(lines, urls, p, used)
               bp2 == IF ok
                        THEN bp \o <<lines[p], SourceLine(lines[p + 1].url)>>
                        ELSE bp
               used2 == IF ok THEN used \cup {lines[p + 1].url} ELSE used
               \* i++ skips the source line of an accepted pair
               p2 == IF ok THEN p + 1 ELSE p
           IN  IF Len(bp2) >= DigestLines
                 THEN [bulletPoints |-> bp2, usedUrls |-> used2]
                 ELSE ScanFrom(lines, urls, p2 + 1, bp2, used2)

\* AvailableUrls without the filter
AvailableUrls_Unfiltered(urls, used) == urls

\* validUrls.filter(url => !usedUrls.has(url))
AvailableUrls(urls, used) == SelectSeq(urls, LAMBDA u : u \notin used)

\* the function up to the end of the for loop
validate_scan ==
    /\ vpc = "scan"
    /\ LET r == ScanFrom(summaryText, validUrls, 1, << >>, {})
       IN  /\ bulletPoints' = r.bulletPoints
           /\ usedUrls' = r.usedUrls
    /\ vpc' = "backfill"
    /\ UNCHANGED <<summaryText, validUrls>>
    /\ UNCHANGED notValidateVars

\* validate_backfill that puts the new pair in front (unshift for push)
validate_backfill_Prepend ==
    /\ vpc = "backfill"
    /\ Len(bulletPoints) < DigestLines
    /\ Len(validUrls) > 0
    /\ LET availableUrls == AvailableUrls(validUrls, usedUrls)
       IN  /\ Len(availableUrls) # 0
           /\ \E r \in 0..(Len(availableUrls) - 1) :
                LET randomUrl == availableUrls[r + 1]
                IN  /\ bulletPoints' =
                         <<PlaceholderLine, SourceLine(randomUrl)>> \o bulletPoints
                    /\ usedUrls' = usedUrls \cup {randomUrl}
    /\ UNCHANGED <<vpc, summaryText, validUrls>>
    /\ UNCHANGED notValidateVars

\* one iteration of the while loop: Math.floor(Math.random() *
\* availableUrls.length) is any index of availableUrls
validate_backfill ==
    /\ vpc = "backfill"
    /\ Len(bulletPoints) < DigestLines
    /\ Len(validUrls) > 0
    /\ LET availableUrls == AvailableUrls(validUrls, usedUrls)
       IN  /\ Len(availableUrls) # 0
           /\ \E r \in 0..(Len(availableUrls) - 1) :
                LET randomUrl == availableUrls[r + 1]
                IN  /\ bulletPoints' =
                         bulletPoints \o <<PlaceholderLine, SourceLine(randomUrl)>>
                    /\ usedUrls' = usedUrls \cup {randomUrl}
    /\ UNCHANGED <<vpc, summaryText, validUrls>>
    /\ UNCHANGED notValidateVars

\* the while loop ends (its condition is false or it breaks) and the
\* function returns bulletPoints.join('\n')
validate_return ==
    /\ vpc = "backfill"
    /\ \/ ~(Len(bulletPoints) < DigestLines /\ Len(validUrls) > 0)
       \/ Len(AvailableUrls(validUrls, usedUrls)) = 0
    /\ vpc' = "done"
    /\ UNCHANGED <<summaryText, validUrls, bulletPoints, usedUrls>>
    /\ UNCHANGED notValidateVars

(***************************************************************************)
(* The raw digest texts and known-URL lists that are explored              *)
(***************************************************************************)

\* the shapes of the j-th bullet of a raw text
Shapes == {"good", "repeat", "nourl", "gap", "bare"}

\* the lines of the j-th bullet of a raw text: a bullet with its own URL j
\* on the next line ("good"), with the URL of the first bullet ("repeat"),
\* with a source line that holds no URL ("nourl"), with a blank line before
\* the source line ("gap"), or without source line ("bare")
ItemLines(j, shape) ==
    CASE shape = "good" -> <<BulletLine(j), SourceLine(j)>>
      [] shape = "repeat" -> <<BulletLine(j), SourceLine(1)>>
      [] shape = "nourl" -> <<BulletLine(j), NoUrlLine>>
      [] shape = "gap" -> <<BulletLine(j), OtherLine, SourceLine(j)>>
      [] shape = "bare" -> <<BulletLine(j)>>

\* the raw text of g bullets, all "good" but the one at position odd
\* (none when odd = 0), which has the given shape
RECURSIVE RawText(_, _, _)
RawText(g, odd, shape) ==
    IF g = 0 THEN << >>
    ELSE RawText(g - 1, odd, shape) \o ItemLines(g, IF g = odd THEN shape ELSE "good")

\* the list of the URLs 1..n
RECURSIVE UrlList(_)
UrlList(n) == IF n = 0 THEN << >> ELSE Append(UrlList(n - 1), n)

\* the known-URL lists: the URLs 1..n, possibly with the first one a second
\* time at the end
KnownLists ==
    {UrlList(n) : n \in 0..NumUrls}
      \cup {Append(UrlList(n), 1) : n \in 1..NumUrls}

Range(seq) == {seq[k] : k \in 1..Len(seq)}

\* the backfill of this input makes at most MaxBackfill choices, among at
\* most MaxSpare unused URLs
BackfillBounded(lines, urls) ==
    LET r == ScanFrom(lines, urls, 1, << >>, {})
        unused == Cardinality(Range(urls) \ r.usedUrls)
        slots == (DigestLines - Len(r.bulletPoints)) \div 2
    IN  /\ unused <= MaxSpare
        /\ Min(unused, slots) <= MaxBackfill

ScrapeOff ==
    /\ impl = "scraper"
    /\ nResults = 0
    /\ cpc = "off"
    /\ i = 0
    /\ scrapedResults = << >>
    /\ pc = [s \in Sources |-> "idle"]
    /\ browser = [s \in Sources |-> "null"]
    /\ ret = [s \in Sources |-> EmptyContent]
    /\ attempt = [s \in Sources |-> 0]
    /\ closeErr = [s \in Sources |-> FALSE]

PromptOff ==
    /\ spc = "off"
    /\ documents = << >>
    /\ combinedContent = << >>
    /\ knownUrls = << >>

ValidateOff ==
    /\ vpc = "off"
    /\ summaryText = << >>
    /\ validUrls = << >>
    /\ bulletPoints = << >>
    /\ usedUrls = {}

ProjectOff ==
    /\ ppc = "off"
    /\ summary = << >>
    /\ result = << >>

MainOff ==
    /\ mpc = "off"
    /\ gimpl = "summarizer"
    /\ stages = << >>
    /\ requests = 0
    /\ searchResults = << >>
    /\ articles = << >>
    /\ sourceUrls = << >>
    /\ providerCalls = 0
    /\ providerFailed = 0
    /\ summarizedArticles = << >>
    /\ gret = "pending"
    /\ exitCode = -1

\* the callers of the registry functions
Callers == {1, 2}

RegistryOff ==
    /\ file = [exists |-> FALSE, urls |-> << >>]
    /\ active = {}
    /\ calls = 0
    /\ rpc = [p \in Callers |-> "idle"]
    /\ rurl = [p \in Callers |-> 0]
    /\ processedUrls = [p \in Callers |-> << >>]
    /\ rret = [p \in Callers |-> "none"]
    /\ history = << >>

ValidateInit ==
    /\ ScrapeOff
    /\ PromptOff
    /\ ProjectOff
    /\ MainOff
    /\ RegistryOff
    /\ vpc = "scan"
    /\ \E g \in 0..MaxPairs, odd \in 0..MaxPairs, shape \in Shapes :
         /\ odd <= g
         /\ odd = 0 => shape = "good"
         \* ''.split('\n') is [''], one empty line
         /\ summaryText = IF g = 0 THEN <<OtherLine>> ELSE RawText(g, odd, shape)
    /\ validUrls \in KnownLists
    /\ BackfillBounded(summaryText, validUrls)
    /\ bulletPoints = << >>
    /\ usedUrls = {}

ValidateNext ==
    \/ validate_scan
    \/ validate_backfill
    \/ validate_return

SpecValidate == ValidateInit /\ [][ValidateNext]_vars

(***************************************************************************)
(* src/src/services/messageService.js: extractPointsAndSources             *)
(*                                                                         *)
(* The summary is the sequence of its lines, joined by "\n": the sequence  *)
(* of no line is the empty string.  A bullet line is "* " and its text; a  *)
(* text is named by a number and TextLength gives its number of            *)
(* characters.  A link is the number of a URL, EmptyLink or NoSourceLink.  *)
(***************************************************************************)
\* the text "No additional EdTech updates available"
PadText == -1
\* the link ""
EmptyLink == 0
\* the link "No source available"
NoSourceLink == -1

\* the number of characters of a text: the two pad texts as they are in
\* the code, the texts 3, 4 and 5 of the digests exactly PointCap
\* characters, one more and twice as many, every other text short
TextLength(text) ==
    CASE text = PadText -> 38
      [] text = 0 -> 53
      [] text = 3 -> PointCap
      [] text = 4 -> PointCap + 1
      [] text = 5 -> 2 * PointCap
      [] OTHER -> 40 + text

\* the number of characters of a link: the two fixed links as they are in
\* the code, the URL 2 of the digests one character more than PointCap,
\* every other URL short
LinkLength(link) ==
    CASE link = NoSourceLink -> 19
      [] link = EmptyLink -> 0
      [] link = 2 -> PointCap + 1
      [] OTHER -> 20 + link

\* !summary
IsEmpty(s) == Len(s) = 0

\* nextLine.startsWith("Source:") and
\* nextLine.match(/Source:\s+\[?(https?:\/\/[^\s\]]+)/) with a group 1
SourceMatch(line) == StartsWithSource(line) /\ line.kind = "source"

\* sourceMatch[1], the group (https?:\/\/[^\s\]]+) on the source line of
\* url: the URL up to its first "]" or white space.  The URL 4 of the texts
\* is the one that holds a "]" (as in ?tag[]=edtech); -4 is its part
\* before it
Captured(url) == IF url = 4 THEN -4 ELSE url

\* the inner loop over j = 1, 2: the link of the bullet at line p
FindSource(lines, p) ==
    IF p + 1 <= Len(lines) /\ SourceMatch(lines[p + 1])
      THEN Captured(lines[p + 1].url)
      ELSE IF p + 2 <= Len(lines) /\ SourceMatch(lines[p + 2])
             THEN Captured(lines[p + 2].url)
             ELSE EmptyLink

\* the loop over the lines from line p on: the arrays points and links
RECURSIVE CollectFrom(_, _, _, _)
CollectFrom(lines, p, points, links) ==
    IF p > Len(lines)
      THEN [points |-> points, links |-> links]
      ELSE IF StartsWithStar(lines[p])
             THEN CollectFrom(lines, p + 1,
                              Append(points, lines[p].text),
                              Append(links, FindSource(lines, p)))
             ELSE CollectFrom(lines, p + 1, points, links)

\* PadTo that puts the filler in front
RECURSIVE PadTo_Front(_, _, _)
PadTo_Front(seq, n, filler) ==
    IF Len(seq) < n THEN PadTo_Front(<<filler>> \o seq, n, filler) ELSE seq

\* while (seq.length < n) seq.push(filler)
RECURSIVE PadTo(_, _, _)
PadTo(seq, n, filler) ==
    IF Len(seq) < n THEN PadTo(Append(seq, filler), n, filler) ELSE seq

\* Substring that keeps the whole text
Substring_Whole(text, n) == [text |-> text, len |-> TextLength(text)]

\* text.substring(0, n): the first n characters of the text
Substring(text, n) == [text |-> text, len |-> Min(TextLength(text), n)]

\* the object literal: first_point .. eigth_point are points[1..8],
\* first_link .. eigth_link are links[1..8]
TemplateRecord(today, points, links) ==
    [date |-> today,
     points |-> [k \in 1..TemplateSlots |-> Substring(points[k], PointCap)],
     links |-> [k \in 1..TemplateSlots |-> links[k]]]

\* today.toLocaleDateString("en-US", ...)
Days == {"Monday, November 2, 2026", "Tuesday, November 3, 2026"}

extractPointsAndSources ==
    /\ ppc = "call"
    /\ IF IsEmpty(summary)
         THEN /\ result' = << >>
              /\ ppc' = "returned"
         ELSE LET c == CollectFrom(summary, 1, << >>, << >>)
                  points == PadTo(c.points, TemplateSlots, PadText)
                  links == PadTo(c.links, TemplateSlots, NoSourceLink)
              IN  \E today \in Days :
                    \* points[k].substring of a missing points[k] throws
                    IF Len(points) >= TemplateSlots /\ Len(links) >= TemplateSlots
                      THEN /\ result' = <<TemplateRecord(today, points, links)>>
                           /\ ppc' = "returned"
                      ELSE /\ result' = << >>
                           /\ ppc' = "threw"
    /\ UNCHANGED summary
    /\ UNCHANGED notProjectVars

\* the digest texts: the empty text, a line of prose, and texts of 1 to
\* MaxBullets bullets with at most one that is not a well-formed pair, alone
\* or after a line of prose
DigestTexts ==
    {<< >>, <<OtherLine>>}
      \cup {RawText(g, odd, shape) :
              g \in 1..MaxBullets, odd \in {0}, shape \in {"good"}}
      \cup {<<OtherLine>> \o RawText(g, odd, shape) :
              g \in 1..MaxBullets, odd \in {0}, shape \in {"good"}}
      \cup UNION {{RawText(g, odd, shape) : odd \in 1..g, shape \in Shapes} :
                    g \in 1..MaxBullets}

ProjectInit ==
    /\ ScrapeOff
    /\ PromptOff
    /\ ValidateOff
    /\ MainOff
    /\ RegistryOff
    /\ ppc = "call"
    /\ summary \in DigestTexts
    /\ result = << >>

ProjectNext == extractPointsAndSources

SpecProject == ProjectInit /\ [][ProjectNext]_vars

(***************************************************************************)
(* The digest of validateAndFormatSummary given to extractPointsAndSources *)
(* (sendArticleSummaries: articles[0].summary is what summarizeAllContent  *)
(* of part_000 returned as summary).                                       *)
(***************************************************************************)
\* sendArticleSummaries up to the call
\* extractPointsAndSources(articles[0].summary): bulletPoints.join('\n')
\* is split into the same lines again, and is "" when there is no line
sendArticleSummaries_call ==
    /\ vpc = "done"
    /\ ppc = "off"
    /\ ppc' = "call"
    /\ summary' = bulletPoints
    /\ UNCHANGED result
    /\ UNCHANGED notProjectVars

DigestNext ==
    \/ validate_scan
    \/ validate_backfill
    \/ validate_return
    \/ sendArticleSummaries_call
    \/ extractPointsAndSources

SpecDigest == ValidateInit /\ [][DigestNext]_vars

(***************************************************************************)
(* src/src/services/search.js: isHomepage                                  *)
(*                                                                         *)
(* A path is its segments (in lower case: the patterns ignore case), the   *)
(* extension of the last one ("" for none) and whether it ends with "/".   *)
(***************************************************************************)
Path(segments, ext, slash) == [segments |-> segments, ext |-> ext, slash |-> slash]

\* /^\/$/ and path === "" || path === "/"
IsRoot(path) == Len(path.segments) = 0

\* /^\/(index|home|default|welcome)\.(html|php|asp|jsp)$/i
IsIndexPage(path) ==
    /\ Len(path.segments) = 1
    /\ path.segments[1] \in {"index", "home", "default", "welcome"}
    /\ path.ext \in {"html", "php", "asp", "jsp"}
    /\ ~ path.slash

\* /^\/home\/?$/i and /^\/main\/?$/i
IsHomeDirectory(path) ==
    /\ Len(path.segments) = 1
    /\ path.segments[1] \in {"home", "main"}
    /\ path.ext = ""

\* nonArticlePatterns: /^\/about\/?$/i ... /^\/account\/?$/i
IsNonArticle(path) ==
    /\ Len(path.segments) = 1
    /\ path.segments[1] \in {"about", "contact", "faq", "help", "support", "terms",
                             "privacy", "login", "signup", "register", "account"}
    /\ path.ext = ""

isHomepage(path) ==
    \/ IsRoot(path)
    \/ IsIndexPage(path)
    \/ IsHomeDirectory(path)
    \/ IsNonArticle(path)

\* the path of searchResults[s].url in the runs of Spec: an article, "/",
\* "/about/", "/index.html", and articles from there on
UrlPath(s) ==
    CASE s = 2 -> Path(<< >>, "", TRUE)
      [] s = 3 -> Path(<<"about">>, "", TRUE)
      [] s = 4 -> Path(<<"index">>, "html", FALSE)
      [] OTHER -> Path(<<"news", "story">>, "html", FALSE)

(***************************************************************************)
(* src/README.md: main, with src/src/services/search.js: fetchSearchResults *)
(* and fallbackSearch, and summarizeAllContent of src/unnamed/part_000 and *)
(* of src/src/services/summarizer.js.                                      *)
(*                                                                         *)
(* main awaits one call after the other; the awaits inside the functions   *)
(* it calls are the steps: the two search requests, scrapeMultipleUrls     *)
(* (whose own steps are those of Spec; here its result is an outcome),     *)
(* model.generateContent and saveEdTechNewsSummary.                        *)
(***************************************************************************)

\* catch (error) { console.error(...); process.exit(1); }
Exit(code) ==
    /\ mpc' = "exited"
    /\ exitCode' = code

\* the object of a search result / of a scraped result with the URL s
Article(s) == [url |-> s, content |-> PageText(s)]

\* the scraped results of the sources in kept among the first n, in the
\* order of searchResults
RECURSIVE ArticlesOf(_, _)
ArticlesOf(kept, n) ==
    IF n = 0 THEN << >>
    ELSE IF n \in kept THEN Append(ArticlesOf(kept, n - 1), Article(n))
         ELSE ArticlesOf(kept, n - 1)

\* if (!article.content) continue
HasContent(article) == article.content # EmptyContent

\* the loop over the articles: sourceUrls.push(article.url)
SourceUrlsOf(as) ==
    LET with == SelectSeq(as, HasContent)
    IN  [k \in 1..Len(with) |-> with[k].url]

\* main after fetchSearchResults returned n results, without the test of
\* searchResults.length
AfterSearch_NoCheck(n) ==
    /\ searchResults' = UrlList(n)
    /\ mpc' = "scrape"
    /\ stages' = Append(stages, "scrape")
    /\ UNCHANGED exitCode

\* main after fetchSearchResults returned n results: the test of
\* searchResults.length and the call of scrapeMultipleUrls
AfterSearch(n) ==
    /\ searchResults' = UrlList(n)
    /\ IF n = 0
         THEN /\ Exit(1)
              /\ UNCHANGED stages
         ELSE /\ mpc' = "scrape"
              /\ stages' = Append(stages, "scrape")
              /\ UNCHANGED exitCode

\* main after summarizeAllContent returned sa: the test of
\* summarizedArticles and the call of saveEdTechNewsSummary
AfterGenerate(sa) ==
    /\ summarizedArticles' = sa
    /\ gret' = "returned"
    /\ IF Len(sa) = 0 \/ IsEmpty(sa[1].summary)
         THEN /\ Exit(1)
              /\ UNCHANGED stages
         ELSE /\ mpc' = "save"
              /\ stages' = Append(stages, "save")
              /\ UNCHANGED exitCode

\* summaryText.split('\n'): the empty text is one empty line
Lines(text) == IF Len(text) = 0 THEN <<OtherLine>> ELSE text

\* the texts the provider replies with: the empty text, a line of prose,
\* and texts of up to MaxReply bullets with at most one that is not a
\* well-formed pair
ResponseTexts ==
    {<< >>, <<OtherLine>>}
      \cup {RawText(g, 0, "good") : g \in 1..MaxReply}
      \cup UNION {{RawText(g, odd, shape) : odd \in 1..g, shape \in Shapes} :
                    g \in 1..MaxReply}

\* main calls fetchSearchResults, which sends the first search request
main_start ==
    /\ mpc = "start"
    /\ mpc' = "fetch"
    /\ stages' = <<"search">>
    /\ requests' = requests + 1
    /\ UNCHANGED <<gimpl, searchResults, articles, sourceUrls, providerCalls,
                   providerFailed, summarizedArticles, gret, exitCode>>
    /\ UNCHANGED <<validateVars, notMainVars>>

\* the first search request settles: with items fetchSearchResults returns
\* them to main, with no item or an error it calls fallbackSearch, which
\* sends the second request
main_fetchDone ==
    /\ mpc = "fetch"
    /\ \E ok \in BOOLEAN, n \in 0..MaxCandidates :
         IF ok /\ n > 0
           THEN /\ AfterSearch(n)
                /\ UNCHANGED requests
           ELSE /\ mpc' = "fallback"
                /\ requests' = requests + 1
                /\ UNCHANGED <<stages, searchResults, exitCode>>
    /\ UNCHANGED <<gimpl, articles, sourceUrls, providerCalls, providerFailed,
                   summarizedArticles, gret>>
    /\ UNCHANGED <<validateVars, notMainVars>>

\* main_fallbackDone that sends the request once more when it failed
main_fallbackDone_Again ==
    /\ mpc = "fallback"
    /\ \E ok \in BOOLEAN, n \in 0..MaxCandidates :
         IF ok \/ requests >= 3
           THEN /\ AfterSearch(IF ok THEN n ELSE 0)
                /\ UNCHANGED requests
           ELSE /\ requests' = requests + 1
                /\ UNCHANGED <<mpc, stages, searchResults, exitCode>>
    /\ UNCHANGED <<gimpl, articles, sourceUrls, providerCalls,
                   providerFailed, summarizedArticles, gret>>
    /\ UNCHANGED <<validateVars, notMainVars>>

\* the second search request settles: fallbackSearch returns the items, or
\* [] when there is none or the request failed
main_fallbackDone ==
    /\ mpc = "fallback"
    /\ \E ok \in BOOLEAN, n \in 0..MaxCandidates :
         AfterSearch(IF ok THEN n ELSE 0)
    /\ UNCHANGED <<gimpl, requests, articles, sourceUrls, providerCalls,
                   providerFailed, summarizedArticles, gret>>
    /\ UNCHANGED <<validateVars, notMainVars>>

\* main after scrapeMultipleUrls returned the sources in kept: the test of
\* scrapedResults.length and the call of summarizeAllContent, which runs up
\* to model.generateContent
AfterScrape(kept) ==
    LET as == ArticlesOf(kept, Len(searchResults))
    IN  /\ articles' = as
        /\ IF Len(as) = 0
             THEN /\ Exit(1)
                  /\ UNCHANGED <<stages, sourceUrls, providerCalls,
                                 summarizedArticles, gret>>
             ELSE IF Len(SourceUrlsOf(as)) = 0
                    \* combinedContent.length === 0: return []
                    THEN /\ stages' = Append(stages, "generate")
                         /\ summarizedArticles' = << >>
                         /\ gret' = "returned"
                         /\ Exit(1)
                         /\ UNCHANGED <<sourceUrls, providerCalls>>
                    ELSE /\ stages' = Append(stages, "generate")
                         /\ sourceUrls' = SourceUrlsOf(as)
                         /\ providerCalls' = providerCalls + 1
                         /\ mpc' = "generate"
                         /\ UNCHANGED <<summarizedArticles, gret, exitCode>>

\* scrapeMultipleUrls returns the sources with content, whichever they are
main_scrapeDone ==
    /\ mpc = "scrape"
    /\ \E kept \in SUBSET (1..Len(searchResults)) : AfterScrape(kept)
    /\ UNCHANGED <<gimpl, requests, searchResults, providerFailed>>
    /\ UNCHANGED <<validateVars, notMainVars>>

\* model.generateContent settles.  It rejects, or result.response.text()
\* throws: catch (error) { return []; }.  It gives a text: summarizer.js
\* returns it as the summary, part_000 calls validateAndFormatSummary
main_generateDone ==
    /\ mpc = "generate"
    /\ \E outcome \in {"rejected", "no_text", "text"}, text \in ResponseTexts :
         IF outcome # "text"
           THEN /\ providerFailed' = providerFailed + 1
                /\ AfterGenerate(<< >>)
                /\ UNCHANGED validateVars
           ELSE IF gimpl = "summarizer"
                  THEN /\ AfterGenerate(<<[summary |-> text]>>)
                       /\ UNCHANGED <<providerFailed, validateVars>>
                  ELSE /\ mpc' = "validate"
                       /\ vpc' = "scan"
                       /\ summaryText' = Lines(text)
                       /\ validUrls' = sourceUrls
                       /\ bulletPoints' = << >>
                       /\ usedUrls' = {}
                       /\ UNCHANGED <<providerFailed, stages, summarizedArticles,
                                      gret, exitCode>>
    /\ UNCHANGED <<gimpl, requests, searchResults, articles, sourceUrls,
                   providerCalls>>
    /\ UNCHANGED notMainVars

\* main_validateDone that returns the provider's text as it came
main_validateDone_RawText ==
    /\ mpc = "validate"
    /\ vpc = "done"
    /\ AfterGenerate(<<[summary |-> summaryText]>>)
    /\ UNCHANGED <<gimpl, requests, searchResults, articles, sourceUrls,
                   providerCalls, providerFailed>>
    /\ UNCHANGED <<validateVars, notMainVars>>

\* part_000: validateAndFormatSummary has returned; summarizeAllContent
\* returns the one article with the summary
main_validateDone ==
    /\ mpc = "validate"
    /\ vpc = "done"
    /\ AfterGenerate(<<[summary |-> bulletPoints]>>)
    /\ UNCHANGED <<gimpl, requests, searchResults, articles, sourceUrls,
                   providerCalls, providerFailed>>
    /\ UNCHANGED <<validateVars, notMainVars>>

\* saveEdTechNewsSummary settles: main ends, or the catch exits with 1
main_saveDone ==
    /\ mpc = "save"
    /\ \E ok \in BOOLEAN : Exit(IF ok THEN 0 ELSE 1)
    /\ UNCHANGED <<gimpl, stages, requests, searchResults, articles, sourceUrls,
                   providerCalls, providerFailed, summarizedArticles, gret>>
    /\ UNCHANGED <<validateVars, notMainVars>>

\* the cache file that earlier runs have left: none, or one that holds the
\* first URLs the search can return; no registry call is running
SeenBefore ==
    /\ \/ file = [exists |-> FALSE, urls |-> << >>]
       \/ \E n \in 1..2 : file = [exists |-> TRUE, urls |-> [k \in 1..n |-> k]]
    /\ active = {}
    /\ calls = 0
    /\ rpc = [p \in Callers |-> "idle"]
    /\ rurl = [p \in Callers |-> 0]
    /\ processedUrls = [p \in Callers |-> << >>]
    /\ rret = [p \in Callers |-> "none"]
    /\ history = << >>

MainInit ==
    /\ ScrapeOff
    /\ PromptOff
    /\ ValidateOff
    /\ ProjectOff
    /\ SeenBefore
    /\ mpc = "start"
    /\ gimpl \in {"part_000", "summarizer"}
    /\ stages = << >>
    /\ requests = 0
    /\ searchResults = << >>
    /\ articles = << >>
    /\ sourceUrls = << >>
    /\ providerCalls = 0
    /\ providerFailed = 0
    /\ summarizedArticles = << >>
    /\ gret = "pending"
    /\ exitCode = -1

MainNext ==
    \/ main_start
    \/ main_fetchDone
    \/ main_fallbackDone
    \/ main_scrapeDone
    \/ main_generateDone
    \/ validate_scan
    \/ validate_backfill
    \/ validate_return
    \/ main_validateDone
    \/ main_saveDone

SpecMain == MainInit /\ [][MainNext]_vars

(***************************************************************************)
(* src/unnamed/part_000, src/src/services/summarizer.js:                   *)
(* summarizeAllContent up to the prompt.  A content is the empty string    *)
(* or <<c>> for the text c; combinedContent is the sequence of its         *)
(* sections, each with the URL after the source marker and the content     *)
(* put after the content marker.                                           *)
(***************************************************************************)
\* article.content.length: the text 1 is exactly ContentCap characters
\* long, the text 2 one more, the text 3 twice as many, every other short
ContentLength(content) ==
    IF content = EmptyContent THEN 0
    ELSE CASE content[1] = 1 -> ContentCap
           [] content[1] = 2 -> ContentCap + 1
           [] content[1] = 3 -> 2 * ContentCap
           [] OTHER -> 100 + content[1]

\* Truncated that keeps the whole content
Truncated_Whole(content) ==
    [text |-> content, len |-> ContentLength(content), cut |-> FALSE]

\* article.content.length > 4000
\*   ? article.content.substring(0, 4000) + "..." : article.content
Truncated(content) ==
    IF ContentLength(content) > ContentCap
      THEN [text |-> content, len |-> ContentCap + EllipsisLength, cut |-> TRUE]
      ELSE [text |-> content, len |-> ContentLength(content), cut |-> FALSE]

\* the for loop: combinedContent += the section of every article that has
\* content
SectionsOf(as) ==
    LET with == SelectSeq(as, HasContent)
    IN  [k \in 1..Len(with) |->
           [url |-> with[k].url, content |-> Truncated(with[k].content)]]

\* summarizeAllContent(documents) up to its first await: the test of
\* articles, the for loop and the test of combinedContent
summarizeAllContent_prepare ==
    /\ spc = "call"
    /\ IF Len(documents) = 0
         THEN /\ spc' = "returned_empty"
              /\ UNCHANGED <<combinedContent, knownUrls>>
         ELSE /\ combinedContent' = SectionsOf(documents)
              /\ knownUrls' = SourceUrlsOf(documents)
              /\ spc' = IF Len(SectionsOf(documents)) = 0
                          THEN "returned_empty"
                          ELSE "generate"
    /\ UNCHANGED documents
    /\ UNCHANGED notPromptVars

\* the documents: up to MaxDocs articles with one of two URLs and an
\* empty, a short or a long content
Contents == {EmptyContent} \cup {<<c>> : c \in 1..4}
Documents ==
    UNION {[1..n -> [url : {1, 2}, content : Contents]] : n \in 0..MaxDocs}

PromptInit ==
    /\ ScrapeOff
    /\ ValidateOff
    /\ ProjectOff
    /\ MainOff
    /\ RegistryOff
    /\ spc = "call"
    /\ documents \in Documents
    /\ combinedContent = << >>
    /\ knownUrls = << >>

PromptNext == summarizeAllContent_prepare

SpecPrompt == PromptInit /\ [][PromptNext]_vars

(***************************************************************************)
(* src/src/services/search.js: isUrlProcessedBefore, markUrlAsProcessed    *)
(*                                                                         *)
(* The cache file holds a JSON array of URLs (numbers here).  A call is    *)
(* one step per awaited file operation; a file operation succeeds or       *)
(* fails, and a read of a file that is not there fails with ENOENT.        *)
(***************************************************************************)
\* the list of the URLs 1 .. n
FirstUrls(n) == [k \in 1..n |-> k]

\* KeepLast that cuts the newest URLs off instead of the oldest
KeepLast_First(list, n) ==
    IF Len(list) > n THEN SubSeq(list, 1, n) ELSE list

\* processedUrls.slice(processedUrls.length - 1000) when it is longer
KeepLast(list, n) ==
    IF Len(list) > n THEN SubSeq(list, Len(list) - n + 1, Len(list)) ELSE list

\* NeedsWrite that takes every URL for a new one
NeedsWrite_Always(list, url) == TRUE

\* if (!processedUrls.includes(url))
NeedsWrite(list, url) == ~ Includes(list, url)

\* the call of caller p is over: it returns to its caller
Return(p, failed) ==
    /\ rpc' = [rpc EXCEPT ![p] = "idle"]
    /\ history' = Append(history, [op |-> IF rpc[p] \in {"is_read", "is_create"}
                                            THEN "is" ELSE "mark",
                                   url |-> rurl[p],
                                   failed |-> failed])

\* caller p calls isUrlProcessedBefore(url) or markUrlAsProcessed(url):
\* the function runs up to await fs.readFile
registry_call(p) ==
    /\ p \in active
    /\ rpc[p] = "idle"
    /\ calls < MaxCalls
    /\ calls' = calls + 1
    /\ \E op \in {"is_read", "mark_read"} : rpc' = [rpc EXCEPT ![p] = op]
    /\ \E url \in {1, 2, Capacity + 1} : rurl' = [rurl EXCEPT ![p] = url]
    /\ processedUrls' = [processedUrls EXCEPT ![p] = << >>]
    /\ UNCHANGED <<file, active, rret, history>>
    /\ UNCHANGED notRegistryVars

\* isUrlProcessedBefore_readDone that looks the URL up in the list the
\* call started with instead of the one it has read
isUrlProcessedBefore_readDone_Stale(p) ==
    /\ rpc[p] = "is_read"
    /\ \/ /\ file.exists
          /\ rret' = [rret EXCEPT ![p] =
                        IF Includes(processedUrls[p], rurl[p]) THEN "true" ELSE "false"]
          /\ Return(p, FALSE)
          /\ UNCHANGED processedUrls
       \/ /\ ~ file.exists
          /\ rpc' = [rpc EXCEPT ![p] = "is_create"]
          /\ UNCHANGED <<processedUrls, rret, history>>
       \/ /\ rret' = [rret EXCEPT ![p] = "false"]
          /\ Return(p, TRUE)
          /\ UNCHANGED processedUrls
    /\ UNCHANGED <<file, active, calls, rurl>>
    /\ UNCHANGED notRegistryVars

\* isUrlProcessedBefore: fs.readFile settles.  With the data it returns
\* processedUrls.includes(url); with ENOENT it goes on to write "[]";
\* with another error (or data that JSON.parse rejects) it returns false
isUrlProcessedBefore_readDone(p) ==
    /\ rpc[p] = "is_read"
    /\ \/ /\ file.exists
          /\ processedUrls' = [processedUrls EXCEPT ![p] = file.urls]
          /\ rret' = [rret EXCEPT ![p] =
                        IF Includes(file.urls, rurl[p]) THEN "true" ELSE "false"]
          /\ Return(p, FALSE)
       \/ /\ ~ file.exists
          /\ rpc' = [rpc EXCEPT ![p] = "is_create"]
          /\ UNCHANGED <<processedUrls, rret, history>>
       \/ /\ rret' = [rret EXCEPT ![p] = "false"]
          /\ Return(p, TRUE)
          /\ UNCHANGED processedUrls
    /\ UNCHANGED <<file, active, calls, rurl>>
    /\ UNCHANGED notRegistryVars

\* isUrlProcessedBefore: fs.writeFile of "[]" settles; [].includes(url)
\* is false, and so is the value the catch returns
isUrlProcessedBefore_createDone(p) ==
    /\ rpc[p] = "is_create"
    /\ rret' = [rret EXCEPT ![p] = "false"]
    /\ \/ /\ file' = [exists |-> TRUE, urls |-> << >>]
          /\ Return(p, FALSE)
       \/ /\ Return(p, TRUE)
          /\ UNCHANGED file
    /\ UNCHANGED <<active, calls, rurl, processedUrls>>
    /\ UNCHANGED notRegistryVars

\* markUrlAsProcessed after the read gave list: a URL that is in it ends
\* the call, a new one is pushed, the list cut to the last 1000 and
\* fs.writeFile called
AfterRead(p, list) ==
    IF NeedsWrite(list, rurl[p])
      THEN /\ processedUrls' = [processedUrls EXCEPT ![p] =
                                  KeepLast(Append(list, rurl[p]), Capacity)]
           /\ rpc' = [rpc EXCEPT ![p] = "mark_write"]
           /\ UNCHANGED history
      ELSE /\ processedUrls' = [processedUrls EXCEPT ![p] = list]
           /\ Return(p, FALSE)

\* markUrlAsProcessed: fs.readFile settles.  ENOENT leaves the empty
\* list, another error ends the call in the catch
markUrlAsProcessed_readDone(p) ==
    /\ rpc[p] = "mark_read"
    /\ \/ /\ file.exists
          /\ AfterRead(p, file.urls)
       \/ /\ ~ file.exists
          /\ AfterRead(p, << >>)
       \/ /\ Return(p, TRUE)
          /\ UNCHANGED processedUrls
    /\ UNCHANGED <<file, active, calls, rurl, rret>>
    /\ UNCHANGED notRegistryVars

\* markUrlAsProcessed: fs.writeFile settles
markUrlAsProcessed_writeDone(p) ==
    /\ rpc[p] = "mark_write"
    /\ \/ /\ file' = [exists |-> TRUE, urls |-> processedUrls[p]]
          /\ Return(p, FALSE)
       \/ /\ Return(p, TRUE)
          /\ UNCHANGED file
    /\ UNCHANGED <<active, calls, rurl, processedUrls, rret>>
    /\ UNCHANGED notRegistryVars

\* the cache file before the run: not there, or a list the functions have
\* written, from the empty one to a full one
RegistryInit ==
    /\ ScrapeOff
    /\ PromptOff
    /\ ValidateOff
    /\ ProjectOff
    /\ MainOff
    /\ \/ file = [exists |-> FALSE, urls |-> << >>]
       \/ \E n \in {0, 1, 2, Capacity - 1, Capacity} :
            file = [exists |-> TRUE, urls |-> FirstUrls(n)]
    /\ active = {1}
    /\ calls = 0
    /\ rpc = [p \in Callers |-> "idle"]
    /\ rurl = [p \in Callers |-> 0]
    /\ processedUrls = [p \in Callers |-> << >>]
    /\ rret = [p \in Callers |-> "none"]
    /\ history = << >>

RegistryNext ==
    \/ \E p \in Callers : registry_call(p)
    \/ \E p \in Callers : isUrlProcessedBefore_readDone(p)
    \/ \E p \in Callers : isUrlProcessedBefore_createDone(p)
    \/ \E p \in Callers : markUrlAsProcessed_readDone(p)
    \/ \E p \in Callers : markUrlAsProcessed_writeDone(p)

SpecRegistry == RegistryInit /\ [][RegistryNext]_vars

\* two callers of one run whose registry calls overlap: each await of a call
\* lets the other caller's call go on
ConcurrentInit ==
    /\ ScrapeOff
    /\ PromptOff
    /\ ValidateOff
    /\ ProjectOff
    /\ MainOff
    /\ \/ file = [exists |-> FALSE, urls |-> << >>]
       \/ \E n \in {0, Capacity} :
            file = [exists |-> TRUE, urls |-> FirstUrls(n)]
    /\ active = Callers
    /\ calls = 0
    /\ rpc = [p \in Callers |-> "idle"]
    /\ rurl = [p \in Callers |-> 0]
    /\ processedUrls = [p \in Callers |-> << >>]
    /\ rret = [p \in Callers |-> "none"]
    /\ history = << >>

SpecConcurrent == ConcurrentInit /\ [][RegistryNext]_vars

(***************************************************************************)
(* Specifications                                                          *)
(***************************************************************************)
ScrapeInit ==
    /\ impl \in {"scraper", "search"}
    /\ nResults \in 0..MaxSources
    /\ cpc = "start"
    /\ i = 0
    /\ scrapedResults = << >>
    /\ pc = [s \in Sources |-> "idle"]
    /\ browser = [s \in Sources |-> "null"]
    /\ ret = [s \in Sources |-> EmptyContent]
    /\ attempt = [s \in Sources |-> 0]
    /\ closeErr = [s \in Sources |-> FALSE]

Init ==
    /\ ScrapeInit
    /\ PromptOff
    /\ ValidateOff
    /\ ProjectOff
    /\ MainOff
    /\ RegistryOff

Next ==
    \/ scrapeMultipleUrls_start
    \/ scrapeMultipleUrls_batchDone
    \/ scrapeMultipleUrls_delayDone
    \/ \E s \in Sources : scrapeContent_launch(s)
    \/ \E s \in Sources : scrapeContent_setup(s)
    \/ \E s \in Sources : scrapeContent_goto(s)
    \/ \E s \in Sources : scrapeContent_extract(s)
    \/ \E s \in Sources : scrapeContent_close(s)
    \/ search_scrapeMultipleUrls_start
    \/ search_scrapeMultipleUrls_resultDone
    \/ search_scrapeMultipleUrls_delayDone
    \/ \E s \in Sources : search_scrapeContent_launch(s)
    \/ \E s \in Sources : search_scrapeContent_setup(s)
    \/ \E s \in Sources : search_scrapeContent_goto(s)
    \/ \E s \in Sources : search_scrapeContent_retry(s)
    \/ \E s \in Sources : search_scrapeContent_extract(s)
    \/ \E s \in Sources : search_scrapeContent_close(s)

Spec == Init /\ [][Next]_vars

\* every await settles sooner or later: launch, navigation and close have
\* timeouts, the pauses are timers
FairSpec == Spec /\ WF_vars(Next)

(***************************************************************************)
(* The pipeline run with the scrape stage run step by step: main calls     *)
(* scrapeMultipleUrls(searchResults) and goes on when it has returned.     *)
(***************************************************************************)
RunInit ==
    /\ impl \in {"scraper", "search"}
    /\ nResults = 0
    /\ cpc = "off"
    /\ i = 0
    /\ scrapedResults = << >>
    /\ pc = [s \in Sources |-> "idle"]
    /\ browser = [s \in Sources |-> "null"]
    /\ ret = [s \in Sources |-> EmptyContent]
    /\ attempt = [s \in Sources |-> 0]
    /\ closeErr = [s \in Sources |-> FALSE]
    /\ PromptOff
    /\ ValidateOff
    /\ ProjectOff
    /\ RegistryOff
    /\ mpc = "start"
    /\ gimpl \in {"part_000", "summarizer"}
    /\ stages = << >>
    /\ requests = 0
    /\ searchResults = << >>
    /\ articles = << >>
    /\ sourceUrls = << >>
    /\ providerCalls = 0
    /\ providerFailed = 0
    /\ summarizedArticles = << >>
    /\ gret = "pending"
    /\ exitCode = -1

\* await scrapeMultipleUrls(searchResults): the call
main_scrapeCall ==
    /\ mpc = "scrape"
    /\ cpc = "off"
    /\ cpc' = "start"
    /\ nResults' = Len(searchResults)
    /\ UNCHANGED <<impl, i, scrapedResults, pc, browser, ret, attempt, closeErr>>
    /\ UNCHANGED notScrapeVars

\* await scrapeMultipleUrls(searchResults): the function has returned
\* scrapedResults; its locals are gone
main_scrapeReturn ==
    /\ mpc = "scrape"
    /\ cpc = "done"
    /\ AfterScrape({scrapedResults[k].src : k \in 1..Len(scrapedResults)})
    /\ cpc' = "off"
    /\ nResults' = 0
    /\ i' = 0
    /\ scrapedResults' = << >>
    /\ pc' = [s \in Sources |-> "idle"]
    /\ browser' = [s \in Sources |-> "null"]
    /\ ret' = [s \in Sources |-> EmptyContent]
    /\ attempt' = [s \in Sources |-> 0]
    /\ closeErr' = [s \in Sources |-> FALSE]
    /\ UNCHANGED <<impl, gimpl, requests, searchResults, providerFailed>>
    /\ UNCHANGED <<validateVars, projectVars, registryVars, promptVars>>

RunNext ==
    \/ main_start
    \/ main_fetchDone
    \/ main_fallbackDone
    \/ main_scrapeCall
    \/ Next
    \/ main_scrapeReturn
    \/ main_generateDone
    \/ validate_scan
    \/ validate_backfill
    \/ validate_return
    \/ main_validateDone
    \/ main_saveDone

SpecRun == RunInit /\ [][RunNext]_vars

\* every awaited call settles sooner or later
FairRun == SpecRun /\ WF_vars(RunNext)

(***************************************************************************)
(* Claims about the scrape coordinators and the content extractors         *)
(***************************************************************************)

\* the extractions that have started and not yet completed
InFlight == {s \in Sources : pc[s] \notin {"idle", "returned", "threw"}}

\* the calls of scrapeContent that are over
Settled == {s \in Sources : pc[s] \in {"returned", "threw"}}

\* the 0-based number of the batch of source s in scraper.js
BatchOf(s) == (s - 1) \div CONCURRENCY

\* the sources that scrapedResults holds
ResultSources == {scrapedResults[k].src : k \in 1..Len(scrapedResults)}

\* C1: at no moment of a run of scrapeMultipleUrls are more than CONCURRENCY
\* extractions started and not yet completed.
C1_AtMostConcurrencyInFlight ==
    Cardinality(InFlight) <= CONCURRENCY

\* a full batch of scraper.js is in flight
C1_Witness ==
    /\ impl = "scraper"
    /\ Cardinality(InFlight) = CONCURRENCY

C3_ScrapeContentNeverThrows ==
    \A s \in Sources : pc[s] # "threw"

\* C4, the state part: when scrapeMultipleUrls has returned, its result
\* holds exactly the sources whose own extraction returned non-empty
\* content, whatever happened to the other sources.
C4_SiblingsKept ==
    cpc = "done" =>
      /\ \A s \in 1..nResults : pc[s] \in {"returned", "threw"}
      /\ ResultSources =
           {s \in 1..nResults : pc[s] = "returned" /\ ret[s] # EmptyContent}

\* C4: failed extractions never keep scrapeMultipleUrls from completing, and
\* its result then holds every source whose own extraction returned
\* non-empty content and none of the failed ones.
C4_FailuresIsolated ==
    /\ []C4_SiblingsKept
    /\ <>(cpc = "done")

\* scrapeMultipleUrls has returned; in the first batch one extraction failed
\* and a sibling's content is in the result
C4_Witness ==
    /\ cpc = "done"
    /\ \E s, t \in 1..Min(CONCURRENCY, nResults) :
         /\ s # t
         /\ ret[s] = EmptyContent
         /\ ret[t] # EmptyContent
         /\ t \in ResultSources
         /\ s \notin ResultSources

\* C5: in scraper.js no extraction of a batch starts before every extraction
\* of the batches before it has completed, and the extractions of one batch
\* are started together.
C5_BatchesSequential ==
    impl = "scraper" =>
      \A s \in 1..nResults :
        pc[s] # "idle" =>
          \A t \in 1..nResults :
            /\ BatchOf(t) < BatchOf(s) => pc[t] = "returned"
            /\ BatchOf(t) = BatchOf(s) => pc[t] # "idle"

\* the second batch is in flight after the first batch, whose three
\* extractions were in flight together, has completed
C5_Witness ==
    /\ impl = "scraper"
    /\ \E s \in 1..nResults :
         /\ BatchOf(s) = 1
         /\ pc[s] \notin {"idle", "returned"}
         /\ \A t \in 1..CONCURRENCY : pc[t] = "returned"

(***************************************************************************)
(* Claims about validateAndFormatSummary                                   *)
(***************************************************************************)

\* the largest number of points of a digest: 8 points * 2 lines each
MaxPoints == DigestLines \div 2

\* the number of (point, source) pairs of the digest built so far
NumPairs == Len(bulletPoints) \div 2

\* the source URL and the point of the k-th pair of the digest
PairUrl(k) == bulletPoints[2 * k].url
PairPoint(k) == bulletPoints[2 * k - 1]

\* the pairs of the digest that the backfill added
Backfilled == {k \in 1..NumPairs : PairPoint(k) = PlaceholderLine}

\* the positions of the raw text that hold a bullet directly followed by a
\* source line whose URL matches the pattern and is a known URL
Candidates ==
    {p \in 1..(Len(summaryText) - 1) :
       /\ summaryText[p].kind = "bullet"
       /\ summaryText[p + 1].kind = "source"
       /\ summaryText[p + 1].url \in Range(validUrls)}

\* the candidates whose URL no earlier candidate has
FirstCandidates ==
    LET c == Candidates
    IN  {p \in c : \A q \in c : q < p => summaryText[q + 1].url # summaryText[p + 1].url}

\* the first MaxPoints of them
KeptCandidates ==
    LET fc == FirstCandidates
    IN  {p \in fc : Cardinality({q \in fc : q < p}) < MaxPoints}

\* the number of distinct known URLs that no kept candidate uses
NumUnused ==
    Cardinality(Range(validUrls) \ {summaryText[p + 1].url : p \in KeptCandidates})

\* the scan is over
Scanned == vpc \in {"backfill", "done"}

\* C6: no two pairs of the digest, accepted or backfilled, have the same
\* source URL, whatever the raw text and the known-URL list (which may hold
\* a URL twice).
C6_DistinctSourceUrls ==
    \A j, k \in 1..NumPairs : j # k => PairUrl(j) # PairUrl(k)

\* the function has returned a digest with accepted and backfilled pairs,
\* for a raw text that names a URL twice and a known-URL list that holds a
\* URL twice
C6_Witness ==
    /\ vpc = "done"
    /\ Len(validUrls) > Cardinality(Range(validUrls))
    /\ Backfilled # {}
    /\ Backfilled # 1..NumPairs
    /\ \E p, q \in Candidates : p # q /\ summaryText[p + 1].url = summaryText[q + 1].url

\* C7: every source URL of the digest is a member of validUrls; an accepted
\* pair is a bullet of the raw text directly followed by a source line
\* whose URL matches the pattern, is known and was not used by an earlier
\* accepted pair; a backfilled pair uses a URL of validUrls.
C7_OnlyKnownUrls ==
    /\ \A k \in 1..NumPairs : Includes(validUrls, PairUrl(k))
    /\ Scanned =>
         LET fc == FirstCandidates
         IN  \A k \in (1..NumPairs) \ Backfilled :
               \E p \in fc :
                 /\ summaryText[p] = PairPoint(k)
                 /\ summaryText[p + 1].url = PairUrl(k)

\* the function has returned a non-empty digest for a raw text with a
\* bullet whose source URL is unknown and a bullet whose source line holds
\* no URL
C7_Witness ==
    /\ vpc = "done"
    /\ NumPairs > 0
    /\ Backfilled # {}
    /\ \E p \in 1..Len(summaryText) :
         /\ summaryText[p].kind = "source"
         /\ ~Includes(validUrls, summaryText[p].url)
    /\ \E p \in 1..Len(summaryText) : summaryText[p].kind = "nourl"

\* C8: the digest never has more than 8 pairs; the scan keeps the first 8
\* acceptable pairs of the raw text and ignores every later candidate, and
\* nothing is backfilled once 8 pairs are present.
C8_AtMostEightPairs ==
    /\ Len(bulletPoints) <= DigestLines
    /\ NumPairs <= MaxPoints
    /\ Scanned =>
         /\ {PairPoint(k) : k \in (1..NumPairs) \ Backfilled}
              = {summaryText[p] : p \in KeptCandidates}
         /\ Cardinality(FirstCandidates) >= MaxPoints => Backfilled = {}

\* the function has returned 8 pairs for a raw text with more than 8
\* acceptable pairs
C8_Witness ==
    /\ vpc = "done"
    /\ Cardinality(FirstCandidates) > MaxPoints
    /\ NumPairs = MaxPoints

\* C9: with k < 8 accepted pairs the digest keeps them and appends
\* min(8 - k, u) backfilled pairs, u being the number of distinct unused
\* known URLs; each backfilled pair has the placeholder text and an unused
\* URL of its own; so the digest has min(8, number of distinct known URLs)
\* pairs.
C9_BackfillCount ==
    vpc = "done" =>
      LET kept == KeptCandidates
          k == Cardinality(kept)
          keptUrls == {summaryText[p + 1].url : p \in kept}
          filled == Backfilled
      IN  /\ \A j \in 1..NumPairs : j \in filled <=> j > k
          /\ Cardinality(filled) = Min(MaxPoints - k, NumUnused)
          /\ \A j \in filled :
               /\ PairUrl(j) \in Range(validUrls)
               /\ PairUrl(j) \notin keptUrls
               /\ \A j2 \in filled : j2 # j => PairUrl(j2) # PairUrl(j)
          /\ NumPairs = Min(MaxPoints, Cardinality(Range(validUrls)))

\* the scenario of the specification: 5 valid pairs and 10 known URLs give
\* 5 original and 3 backfilled pairs
C9_Witness ==
    /\ vpc = "done"
    /\ Cardinality(KeptCandidates) = 5
    /\ Cardinality(Range(validUrls)) = 10
    /\ NumPairs = 8
    /\ Cardinality(Backfilled) = 3

\* the digest of an invocation in which every random choice is index 0:
\* the while loop with availableUrls[0] for randomUrl
RECURSIVE FirstChoiceFill(_, _)
FirstChoiceFill(bp, used) ==
    IF Len(bp) < DigestLines
         /\ Len(validUrls) > 0
         /\ Len(AvailableUrls(validUrls, used)) # 0
      THEN LET u == AvailableUrls(validUrls, used)[1]
           IN  FirstChoiceFill(bp \o <<PlaceholderLine, SourceLine(u)>>, used \cup {u})
      ELSE bp

FirstChoiceDigest ==
    LET r == ScanFrom(summaryText, validUrls, 1, << >>, {})
    IN  FirstChoiceFill(r.bulletPoints, r.usedUrls)

TextPosition(k) ==
    IF \E p \in 1..Len(summaryText) : summaryText[p] = PairPoint(k)
      THEN CHOOSE p \in 1..Len(summaryText) : summaryText[p] = PairPoint(k)
      ELSE 0

\* C11: the accepted pairs of the digest are in the order in which they
\* occur in the raw text, and every backfilled pair comes after every
\* accepted pair.
C11_AcceptedInTextOrderThenBackfill ==
    Scanned =>
      LET filled == Backfilled
      IN  \A j, k \in 1..NumPairs :
            j < k =>
              /\ j \in filled => k \in filled
              /\ (j \notin filled /\ k \notin filled) =>
                   /\ TextPosition(j) > 0
                   /\ TextPosition(j) < TextPosition(k)
                   /\ summaryText[TextPosition(j) + 1].url = PairUrl(j)
                   /\ summaryText[TextPosition(k) + 1].url = PairUrl(k)

\* the function has returned a digest of three accepted pairs or more
\* followed by two backfilled pairs or more, for a raw text in which a
\* rejected bullet stands between accepted ones
C11_Witness ==
    /\ vpc = "done"
    /\ Cardinality(Backfilled) >= 2
    /\ NumPairs - Cardinality(Backfilled) >= 3
    /\ \E p \in 2..Len(summaryText) :
         /\ summaryText[p].kind = "bullet"
         /\ p \notin KeptCandidates
         /\ \E q \in KeptCandidates : q < p
         /\ \E q \in KeptCandidates : q > p

\* the raw text is 8 well-formed (bullet, source) pairs with known and
\* pairwise distinct URLs, and nothing else
EightGoodPairs ==
    /\ Len(summaryText) = DigestLines
    /\ \A k \in 1..MaxPoints :
         /\ summaryText[2 * k - 1].kind = "bullet"
         /\ summaryText[2 * k].kind = "source"
         /\ Includes(validUrls, summaryText[2 * k].url)
         /\ \A j \in 1..MaxPoints :
              j # k => summaryText[2 * j].url # summaryText[2 * k].url

\* C12: for a raw text of 8 well-formed pairs with known, pairwise distinct
\* source URLs the function returns exactly those 8 pairs, in the same
\* order, with the same point texts and URLs, and no backfilled pair.
C12_EightPairsVerbatim ==
    (vpc = "done" /\ EightGoodPairs) =>
      /\ bulletPoints = summaryText
      /\ Backfilled = {}

\* the function has returned for such a raw text while more known URLs
\* than the 8 of the text were there to backfill with
C12_Witness ==
    /\ vpc = "done"
    /\ EightGoodPairs
    /\ Cardinality(Range(validUrls)) > MaxPoints
    /\ NumPairs = MaxPoints

(***************************************************************************)
(* Claims about extractPointsAndSources                                    *)
(***************************************************************************)

\* the bullet lines of the summary, in the order of the summary
Bullets == SelectSeq(summary, StartsWithStar)

\* the record returned has exactly 8 points and 8 links, and every point
\* is the text it names cut to at most PointCap characters
EightCappedSlots ==
    /\ Len(result) = 1
    /\ DOMAIN result[1].points = 1..8
    /\ DOMAIN result[1].links = 1..8
    /\ \A k \in 1..8 :
         LET point == result[1].points[k]
         IN  /\ point.len <= 1000
             /\ \/ point.len = TextLength(point.text)
                \/ point.len = 1000 /\ TextLength(point.text) > 1000

PaddedAfter(k) ==
    /\ Len(result) = 1
    /\ \A j \in 1..8 :
         IF j <= k
           THEN result[1].points[j].text = Bullets[j].text
           ELSE /\ result[1].points[j].text = PadText
                /\ result[1].points[j].len = TextLength(PadText)
                /\ result[1].links[j] = NoSourceLink

GenerationOver == gret # "pending"

\* C15: a failed provider call leads to a next strategy step (a retry of
\* the primary or a call of the secondary provider): generation that is
\* over after a provider call failed has made a further provider call.
C15_FailedCallLeadsToNextStep ==
    (GenerationOver /\ providerFailed >= 1) => providerCalls >= 2

\* C16: when every provider call has thrown, summarizeAllContent ends by
\* raising an error to its caller and never by a normal return of the
\* empty list.
C16_ExhaustedProviderRaises ==
    (GenerationOver /\ providerCalls >= 1 /\ providerFailed = providerCalls) =>
      ~ (gret = "returned" /\ summarizedArticles = << >>)

\* the four stages, in their order
StageOrder == <<"search", "scrape", "generate", "save">>

\* the run has stopped after the first k stages with a non-zero exit code
StoppedAfter(k) ==
    /\ stages = SubSeq(StageOrder, 1, k)
    /\ exitCode \notin {-1, 0}

\* C17: the stages are called in the order search, scrape, generate,
\* save, each at most once; save is called only if the search returned a
\* candidate, the scrape a document with content and the generation a
\* non-empty summary; when the search returns none, the scrape none or
\* the generation no summary, the run has stopped at that stage with a
\* non-zero exit code.
C17_StagesInOrderOrStop ==
    /\ \E k \in 0..4 : stages = SubSeq(StageOrder, 1, k)
    /\ Len(stages) = 4 =>
         /\ Len(searchResults) >= 1
         /\ \E k \in 1..Len(articles) : articles[k].content # EmptyContent
         /\ Len(summarizedArticles) = 1
         /\ Len(summarizedArticles[1].summary) > 0
    /\ (mpc \notin {"start", "fetch", "fallback"} /\ Len(searchResults) = 0) =>
         (mpc = "exited" /\ StoppedAfter(1))
    /\ (mpc \notin {"start", "fetch", "fallback", "scrape"}
          /\ Len(searchResults) >= 1 /\ Len(articles) = 0) =>
         (mpc = "exited" /\ StoppedAfter(2))
    /\ (GenerationOver
          /\ (Len(summarizedArticles) = 0
                \/ Len(summarizedArticles[1].summary) = 0)) =>
         (mpc = "exited" /\ StoppedAfter(3))

\* a run has handed a digest to the store after a second search request
\* and a scrape that lost a candidate
C17_Witness ==
    /\ mpc = "exited"
    /\ stages = StageOrder
    /\ requests = 2
    /\ Len(articles) < Len(searchResults)
    /\ exitCode = 0

(***************************************************************************)
(* Claims about the homepage filter and the navigation retries             *)
(***************************************************************************)

\* C18: for a URL whose path is a homepage or non-article path, the
\* content extractor launches no browser, attempts no navigation and
\* returns empty content.
C18_NoBrowserForHomepage ==
    \A s \in 1..nResults :
      isHomepage(UrlPath(s)) =>
        /\ browser[s] = "null"
        /\ pc[s] \in {"idle", "returned"}
        /\ ret[s] = EmptyContent

\* the navigation of source s has failed and scrapeContent gives up
GivesUp(s) == pc[s] = "goto" /\ pc'[s] \notin {"goto", "extract", "retry_wait"}

\* C19: scrapeContent makes at most 3 navigation attempts, and it gives
\* up on a failed navigation only when that was the third attempt, never
\* after a single one.
C19_GivesUpAfterThirdAttempt ==
    /\ [](\A s \in Sources : attempt[s] < 3)
    /\ [][\A s \in Sources : GivesUp(s) => attempt[s] = 2]_vars

(***************************************************************************)
(* Claims about the registry of processed URLs                             *)
(***************************************************************************)

\* caller p is in a call of markUrlAsProcessed that comes right after a
\* call of markUrlAsProcessed with the same URL whose file operations
\* succeeded
SecondMark(p) ==
    /\ rpc[p] \in {"mark_read", "mark_write"}
    /\ Len(history) > 0
    /\ history[Len(history)] = [op |-> "mark", url |-> rurl[p], failed |-> FALSE]

\* C20: for every stored list and URL, a second call of
\* markUrlAsProcessed with the URL of a first call (whose file operations
\* succeeded) leaves the cache file as the first call left it: no step of
\* the second call changes the file, so members, order and the entry of
\* the URL stay what they were.
C20_SecondMarkChangesNothing ==
    [][\A p \in Callers : SecondMark(p) => file' = file]_vars

\* the two calls are over for a URL that was not in a full list: the first
\* call has evicted the oldest URL and put the new one last, and the file
\* holds that list
C20_Witness ==
    /\ Len(history) = 2
    /\ history[1] = [op |-> "mark", url |-> 1001, failed |-> FALSE]
    /\ history[2] = [op |-> "mark", url |-> 1001, failed |-> FALSE]
    /\ Len(file.urls) = 1000
    /\ file.urls[1] = 2
    /\ file.urls[1000] = 1001

\* the list has no URL twice
NoDuplicate(list) ==
    Cardinality({list[k] : k \in 1..Len(list)}) = Len(list)

\* list with url put last, the oldest URL leaving when that makes 1001
Inserted(list, url) ==
    IF Len(list) < 1000
      THEN Append(list, url)
      ELSE Append(SubSeq(list, 2, Len(list)), url)

\* the stored list changes in this step
ListChanges == file'.urls # file.urls

\* the markUrlAsProcessed call of caller p ends in this step and none of
\* its file operations has failed
MarkEndsWell(p) ==
    /\ rpc[p] \in {"mark_read", "mark_write"}
    /\ rpc'[p] = "idle"
    /\ ~ history'[Len(history')].failed

\* C21: with calls made one after the other, the stored list never holds
\* more than 1000 URLs nor a URL twice; it changes only by the write of a
\* markUrlAsProcessed call whose URL is not in it: that URL is put last
\* and, when the list is full, the oldest URL (the first) leaves; and a
\* call that ends without a failed file operation leaves its URL in the
\* list.  So the list is the most recently inserted URLs in insertion
\* order.
C21_FifoWithinCapacity ==
    /\ [](Len(file.urls) <= 1000 /\ NoDuplicate(file.urls))
    /\ [][ListChanges =>
            \E p \in Callers :
              /\ rpc[p] = "mark_write"
              /\ ~ Includes(file.urls, rurl[p])
              /\ file'.urls = Inserted(file.urls, rurl[p])]_vars
    /\ [][\A p \in Callers :
            MarkEndsWell(p) => Includes(file'.urls, rurl[p])]_vars

\* a list that held the 1000 URLs 1 .. 1000 in the order of their marking
\* has had URL 1001 marked: URL 1 is gone and the URLs 2 .. 1001 are there
\* in their order
C21_Witness ==
    /\ Len(history) = 1
    /\ history[1] = [op |-> "mark", url |-> 1001, failed |-> FALSE]
    /\ ~ Includes(file.urls, 1)
    /\ Len(file.urls) = 1000
    /\ \A k \in 1..1000 : file.urls[k] = k + 1

\* the isUrlProcessedBefore call of caller p ends in this step
IsEnds(p) == rpc[p] \in {"is_read", "is_create"} /\ rpc'[p] = "idle"

\* the call before the one that is running was markUrlAsProcessed(url)
\* and none of its file operations failed
MarkedJustBefore(url) ==
    /\ Len(history) > 0
    /\ history[Len(history)] = [op |-> "mark", url |-> url, failed |-> FALSE]

\* C22: with no cache file, isUrlProcessedBefore returns false whatever
\* the URL, and no registry call ever ends by raising; markUrlAsProcessed
\* on the missing file creates it with the URL in it; and
\* isUrlProcessedBefore(url) right after markUrlAsProcessed(url) (file
\* operations succeeding) returns true.
C22_MissingStoreIsEmpty ==
    /\ [][\A p \in Callers :
            (IsEnds(p) /\ ~ file.exists) => rret'[p] = "false"]_vars
    /\ [][\A p \in Callers :
            (MarkEndsWell(p) /\ ~ file.exists) =>
              (file'.exists /\ file'.urls = <<rurl[p]>>)]_vars
    /\ [][\A p \in Callers :
            (IsEnds(p) /\ MarkedJustBefore(rurl[p])
               /\ ~ history'[Len(history')].failed) =>
              rret'[p] = "true"]_vars

\* with no cache file at the start, isUrlProcessedBefore(2) has returned
\* false and left no file behind (a file operation of it failed),
\* markUrlAsProcessed(2) has created the file and isUrlProcessedBefore(2)
\* has then returned true
C22_Witness ==
    /\ Len(history) = 3
    /\ history[1] = [op |-> "is", url |-> 2, failed |-> TRUE]
    /\ history[2] = [op |-> "mark", url |-> 2, failed |-> FALSE]
    /\ history[3] = [op |-> "is", url |-> 2, failed |-> FALSE]
    /\ file = [exists |-> TRUE, urls |-> <<2>>]
    /\ rret[1] = "true"

(***************************************************************************)
(* Claims about the registry in a pipeline run                             *)
(***************************************************************************)

\* main has called scrapeMultipleUrls(searchResults)
ScrapeCalled == \E j \in 1..Len(stages) : stages[j] = "scrape"

\* C23: in a pipeline run no candidate whose URL is in the cache file is
\* passed to the content extractor, and when the run has ended well the
\* URLs it has processed are in the cache file.
C23_SeenSkippedAndProcessedMarked ==
    /\ ScrapeCalled =>
         \A k \in 1..Len(searchResults) :
           ~ Includes(file.urls, searchResults[k])
    /\ (mpc = "exited" /\ exitCode = 0) =>
         \A k \in 1..Len(articles) : Includes(file.urls, articles[k].url)

\* a markUrlAsProcessed call for url has completed without an error
MarkCompleted(url) ==
    \E j \in 1..Len(history) :
      history[j] = [op |-> "mark", url |-> url, failed |-> FALSE]

\* C24: whatever the interleaving of the reads and writes of overlapping
\* registry calls, the stored list has no duplicate and at most 1000
\* entries, and every URL whose mark call has completed is in it unless the
\* list is full (the URL can then have been evicted).
C24_NoCompletedMarkLost ==
    /\ NoDuplicate(file.urls)
    /\ Len(file.urls) <= 1000
    /\ \A url \in {1, 2, 1001} :
         MarkCompleted(url) =>
           Includes(file.urls, url) \/ Len(file.urls) = 1000

(***************************************************************************)
(* Claims about generation with the validator                              *)
(***************************************************************************)

\* lines holds a point line directly followed by the source line of a
\* known URL
HasPair(lines, urls) ==
    \E k \in 1..(Len(lines) - 1) :
      /\ lines[k].kind = "bullet"
      /\ lines[k + 1].kind = "source"
      /\ Includes(urls, lines[k + 1].url)

\* part_000's summarizeAllContent has returned after a provider call that
\* gave a text
ReturnedWithText ==
    /\ gimpl = "part_000"
    /\ gret = "returned"
    /\ providerCalls = 1
    /\ providerFailed = 0

SaveCalled == \E j \in 1..Len(stages) : stages[j] = "save"

WithContent == {s \in 1..nResults : pc[s] = "returned" /\ ret[s] # EmptyContent}

\* C26: every entry of the result of scrapeMultipleUrls holds the content
\* extracted from its own source's page, the entries are in input order
\* (so no source is there twice), whatever the order in which the calls of a
\* batch end, and when the function has returned the entries are exactly the
\* sources whose extraction returned non-empty content.
C26_ResultIsContentInInputOrder ==
    /\ \A k \in 1..Len(scrapedResults) :
         /\ scrapedResults[k].src \in 1..nResults
         /\ scrapedResults[k].content = PageText(scrapedResults[k].src)
         /\ scrapedResults[k].content = ret[scrapedResults[k].src]
    /\ \A j, k \in 1..Len(scrapedResults) :
         j < k => scrapedResults[j].src < scrapedResults[k].src
    /\ cpc = "done" =>
         {scrapedResults[k].src : k \in 1..Len(scrapedResults)} = WithContent

\* four sources in two batches: the second and the fourth gave no content,
\* the result holds the first and the third
C26_Witness ==
    /\ impl = "scraper"
    /\ cpc = "done"
    /\ nResults = 4
    /\ ret[2] = EmptyContent
    /\ ret[4] = EmptyContent
    /\ Len(scrapedResults) = 2
    /\ scrapedResults[1].src = 1
    /\ scrapedResults[2].src = 3

(***************************************************************************)
(* Claims about the link fields of the TemplateRecord                      *)
(***************************************************************************)

\* C27: no link field of the TemplateRecord that extractPointsAndSources
\* returns is longer than a fixed cap (the cap of the points, 1000
\* characters), whatever the length of the URL on the source line.
C27_LinksCapped ==
    (ppc = "returned" /\ Len(result) = 1) =>
      \A k \in 1..8 : LinkLength(result[1].links[k]) <= 1000

(***************************************************************************)
(* Claims about the validator's lookahead                                  *)
(***************************************************************************)

\* the bullet at position p of the raw text is a point of the digest
InDigest(p) == \E k \in 1..Len(bulletPoints) : bulletPoints[k] = summaryText[p]

\* C28: a bullet of the raw text is in the digest only when the line
\* directly after it is a source line, and the source line of its pair in
\* the digest holds the URL of that line: a bullet followed by other text,
\* by another bullet or by nothing is rejected even when a source line with
\* a known, unused URL comes later, and no source line goes to another
\* bullet than the one directly before it.
C28_OneLineLookahead ==
    (vpc \in {"backfill", "done"}) =>
      \A p \in 1..Len(summaryText) :
        (summaryText[p].kind = "bullet" /\ InDigest(p)) =>
          /\ p + 1 <= Len(summaryText)
          /\ summaryText[p + 1].kind = "source"
          /\ \E k \in 1..(Len(bulletPoints) - 1) :
               /\ bulletPoints[k] = summaryText[p]
               /\ bulletPoints[k + 1] = SourceLine(summaryText[p + 1].url)

\* three bullets, the second with a line of text before its source line,
\* whose URL 2 is known and stays unused: the digest holds the first and
\* the third bullet, not the second
C28_Witness ==
    /\ vpc = "done"
    /\ summaryText = RawText(3, 2, "gap")
    /\ validUrls = UrlList(3)
    /\ bulletPoints = <<BulletLine(1), SourceLine(1), BulletLine(3), SourceLine(3),
                        PlaceholderLine, SourceLine(2)>>

(***************************************************************************)
(* Claims about the termination of a pipeline run                          *)
(***************************************************************************)

\* the calls made so far are within the fixed bounds of the retry loops
WithinBounds ==
    /\ requests <= 2
    /\ \A s \in Sources : attempt[s] + 1 <= 3
    /\ providerCalls <= 1

\* C29: when every awaited call settles sooner or later, every pipeline run
\* ends (main returns or exits), and on its way it sends at most 2 search
\* requests, makes at most 3 navigation attempts in the loop of a candidate
\* (attempt is the 0-based number of the current one) and at most one
\* provider call (the bounds hold at the start and after every step).
C29_RunTerminates ==
    /\ <>(mpc = "exited")
    /\ WithinBounds
    /\ [][WithinBounds']_vars

\* a run with the retrying extractor has ended well after two search
\* requests, the loss of a candidate and its one provider call
C29_Witness ==
    /\ mpc = "exited"
    /\ exitCode = 0
    /\ impl = "search"
    /\ requests = 2
    /\ Len(articles) < Len(searchResults)
    /\ providerCalls = 1

(***************************************************************************)
(* Claims about the prompt of summarizeAllContent                          *)
(***************************************************************************)

\* the positions of the documents with content, and the rank of one among
\* them
Included == {k \in 1..Len(documents) : documents[k].content # EmptyContent}
Rank(k) == Cardinality({j \in Included : j <= k})

\* the sections and the known URLs are those of the documents with content,
\* one each, in input order
SectionsAndUrlsOfIncluded ==
    /\ Len(combinedContent) = Cardinality(Included)
    /\ Len(knownUrls) = Cardinality(Included)
    /\ \A k \in Included :
         /\ combinedContent[Rank(k)].url = documents[k].url
         /\ combinedContent[Rank(k)].content.text = documents[k].content
         /\ knownUrls[Rank(k)] = documents[k].url

DigestProjected ==
    /\ vpc = "done"
    /\ ppc \in {"returned", "threw"}
    /\ NumPairs >= 1

\* C31: for every digest of 1 <= k <= 8 pairs that validateAndFormatSummary
\* returns, extractPointsAndSources gives a record whose i-th point is the
\* whole text of the i-th pair of the digest and whose i-th link is the
\* source URL of that pair, for every i <= k.
C31_ProjectorPreservesDigest ==
    DigestProjected =>
      /\ Len(result) = 1
      /\ \A j \in 1..NumPairs :
           /\ result[1].points[j].text = PairPoint(j).text
           /\ result[1].points[j].len = TextLength(PairPoint(j).text)
           /\ result[1].links[j] = PairUrl(j)

(***************************************************************************)
(* Claims about the pairing of points and links in the projector           *)
(***************************************************************************)

\* the line of the k-th bullet of the summary, and the line of the bullet
\* after it (the end of the summary for the last one)
BulletPosition(k) ==
    CHOOSE p \in 1..Len(summary) :
      /\ StartsWithStar(summary[p])
      /\ Cardinality({q \in 1..p : StartsWithStar(summary[q])}) = k
NextBulletPosition(k) ==
    IF k < Len(Bullets) THEN BulletPosition(k + 1) ELSE Len(summary) + 1

\* the source lines between the k-th bullet and the next bullet
OwnSourceLines(k) ==
    {q \in (BulletPosition(k) + 1)..(NextBulletPosition(k) - 1) :
       SourceMatch(summary[q])}

\* C32: in the record of extractPointsAndSources the k-th point is the text
\* of the k-th bullet and the k-th link belongs to the same bullet: it is
\* the URL of a source line between that bullet and the next bullet, or the
\* empty link, and it is the empty link when there is no such line; so no
\* source line gives the link of two bullets.
C32_LinkFromOwnSourceLine ==
    (ppc = "returned" /\ Len(result) = 1) =>
      \A k \in 1..Min(Len(Bullets), 8) :
        /\ result[1].points[k].text = Bullets[k].text
        /\ \/ result[1].links[k] = EmptyLink
           \/ \E q \in OwnSourceLines(k) :
                result[1].links[k] = Captured(summary[q].url)

====
